---- MODULE Spec2Model ----
(***************************************************************************)
(* Model of the dashboard's event-stream interpretation layer:             *)
(*   - useSSE            (src/dashboard/src/hooks/useSSE.js)               *)
(*   - buildReasoningChain (src/dashboard/tailwind.config.js, 91-253)      *)
(*   - KnowledgeGraph's periodic snapshot fetch                            *)
(*                       (src/dashboard/src/components/KnowledgeGraph.jsx) *)
(*   - api.request       (src/dashboard/src/api.js)                        *)
(*                                                                         *)
(* JavaScript objects are records that carry exactly the properties that   *)
(* are present; a property that is absent (undefined) is a field that is   *)
(* not in the record's DOMAIN.  JavaScript null is the record JSNull.      *)
(***************************************************************************)
EXTENDS Integers, Sequences, FiniteSets, TLC

VARIABLES
    \* ---- useSSE state (useSSE.js 24-27)
    events,        \* useState([])      : the retained event history
    connected,     \* useState(false)   : connectivity flag
    callStatus,    \* useState(null)    : last call_status / transcript event
    esClosed,      \* the EventSource has been closed by the effect cleanup
    \* ---- observation of the useSSE run (history variables)
    received,      \* every event appended since the last reset, unbounded
    lastOp,        \* what the last step of the hook was
    resetSeen,     \* a reset-marked event has been handled
    drops,         \* number of messages dropped because they failed to parse
    escaped,       \* an exception left the message handler
    arrivals,      \* number of messages delivered so far
    \* ---- KnowledgeGraph state (KnowledgeGraph.jsx 94-103)
    graphData,     \* useState({nodes: [], links: []})
    loading,       \* useState(true)
    intervalOn,    \* the setInterval timer is armed
    inflight,      \* getGraph() requests issued and not yet settled
    issued,        \* number of getGraph() requests issued so far
    layout,        \* line 106: what the last render got from computeLayout
    lastPositions, \* the positions object the last computeLayout call left
    seen,          \* every snapshot rendered so far, with its layout
    \* ---- observation of the fetch run (history variables)
    shownSeq,      \* initiation number of the fetch whose result is displayed
    failedSeqs,    \* initiation numbers of the fetches that were rejected
    unhandled,     \* a promise rejection was left unhandled
    lastFetch,     \* what the last step of the component was
    \* ---- one call of buildReasoningChain, statement by statement
    input,         \* the events argument
    pc,            \* "idle" | "loop"
    pos,           \* index of the event the for-of loop is at
    steps,         \* the local accumulator `steps`
    runs,          \* the values returned by the calls made so far
    \* ---- App state (App.jsx 54-60) and what its last render computed
    demoRunning,   \* useState(false)
    toast,         \* useState(null)
    centerTab,     \* useState(0)
    rightTab,      \* useState(0)
    centerTabsWithBadges,  \* lines 127-138
    rightTabsWithBadges,   \* lines 140-148
    runDemoPending,  \* api.runDemo() requests awaited by handleRunDemo
    \* ---- observation of the App run (history variables)
    reacted,       \* the event the effect of lines 85-124 last handled as latest
    demoRuns,      \* number of times Run Demo was clicked
    script         \* events the backend has still to push for the demo run

sseVars   == <<events, connected, callStatus, esClosed, received, lastOp,
               resetSeen, drops, escaped, arrivals>>
graphVars == <<graphData, loading, intervalOn, inflight, issued, layout,
               lastPositions, seen, shownSeq, failedSeqs, unhandled, lastFetch>>
chainVars == <<input, pc, pos, steps, runs>>
appVars   == <<demoRunning, toast, centerTab, rightTab, centerTabsWithBadges,
               rightTabsWithBadges, runDemoPending, reacted, demoRuns, script>>
demoVars  == <<runDemoPending, demoRuns, script>>
vars      == <<sseVars, graphVars, chainVars, appVars>>

(***************************************************************************)
(* JavaScript value helpers                                                *)
(***************************************************************************)
JSNull == [null |-> TRUE]

\* obj.f is present (not undefined)
Has(obj, f) == f \in DOMAIN obj

\* truthiness of a string-valued / number-valued / array-valued property
TruthyStr(obj, f) == Has(obj, f) /\ obj[f] # ""
TruthyNum(obj, f) == Has(obj, f) /\ obj[f] # 0

\* `${obj.f}` for a string-valued and for a number-valued property
StrOf(obj, f) == IF Has(obj, f) THEN obj[f] ELSE "undefined"
NumOf(obj, f) == IF Has(obj, f) THEN ToString(obj[f]) ELSE "undefined"

\* obj.f || fallback, for a string-valued property
StrOr(obj, f, fallback) == IF TruthyStr(obj, f) THEN obj[f] ELSE fallback
\* `${obj.f || fallback}` for a number-valued property
NumOr(obj, f, fallback) == IF TruthyNum(obj, f) THEN ToString(obj[f]) ELSE fallback

\* the object {} (no property present)
EmptyObject == [f \in {} |-> f]

\* obj with property f set to v, only when v is present in src under g:
\* models `{..., f: src.g}` where an undefined value is an absent property
WithCopied(obj, f, src, g) ==
    IF Has(src, g)
    THEN [k \in DOMAIN obj \cup {f} |-> IF k = f THEN src[g] ELSE obj[k]]
    ELSE obj

\* obj with property f set to v
With(obj, f, v) == [k \in DOMAIN obj \cup {f} |-> IF k = f THEN v ELSE obj[k]]

\* String.prototype.replace("_", " "): the first underscore only
RECURSIVE ReplaceFirstUnderscore(_)
ReplaceFirstUnderscore(s) ==
    IF Len(s) = 0 THEN ""
    ELSE IF SubSeq(s, 1, 1) = "_" THEN " " \o SubSeq(s, 2, Len(s))
    ELSE SubSeq(s, 1, 1) \o ReplaceFirstUnderscore(SubSeq(s, 2, Len(s)))

\* String.prototype.replace(/_/g, " ")
RECURSIVE ReplaceUnderscores(_)
ReplaceUnderscores(s) ==
    IF Len(s) = 0 THEN ""
    ELSE (IF SubSeq(s, 1, 1) = "_" THEN " " ELSE SubSeq(s, 1, 1))
         \o ReplaceUnderscores(SubSeq(s, 2, Len(s)))

\* Array.prototype.slice(from, to) on 0-based half-open indices, from,to >= 0
SliceRange(arr, from, to) ==
    SubSeq(arr, from + 1, IF to < Len(arr) THEN to ELSE Len(arr))

\* Array.prototype.slice(-n): the last n elements (all of them if fewer)
SliceLast(arr, n) ==
    IF Len(arr) <= n THEN arr ELSE SubSeq(arr, Len(arr) - n + 1, Len(arr))

(***************************************************************************)
(* buildReasoningChain (tailwind.config.js 91-253)                         *)
(***************************************************************************)
\* ev.type === t
TypeIs(ev, t) == Has(ev, "type") /\ ev.type = t

\* obj.f === v for a string v
PropIs(obj, f, v) == Has(obj, f) /\ obj[f] = v

\* const d = ev.data || {}
DataOf(ev) ==
    IF Has(ev, "data") /\ ev.data # JSNull THEN ev.data ELSE EmptyObject

\* steps.push(step), in its mutated form: a step equal to the last one is
\* not pushed again
PushUnlessRepeated(arr, step) ==
    IF Len(arr) > 0 /\ arr[Len(arr)] = step THEN arr ELSE Append(arr, step)

\* steps.push(step)
Push(arr, step) == Append(arr, step)

\* lines 98-105
ResearchStep(d) ==
    [category |-> "research",
     label    |-> "Research Phase",
     detail   |-> StrOr(d, "message", "Gathering competitive intelligence and context..."),
     source   |-> "Tavily + Senso"]

\* lines 106-113
StrategyStep ==
    [category |-> "strategy",
     label    |-> "Strategy Formed",
     detail   |-> "Analysis complete - negotiation approach determined",
     source   |-> "Haggle Engine"]

\* lines 114-122
ConfirmedActionStep(ca) ==
    [category  |-> "summary",
     label     |-> "User Confirmed: "
                   \o (IF PropIs(ca, "action", "cancel_service") THEN "Cancel" ELSE "Negotiate")
                   \o " " \o StrOf(ca, "service"),
     detail    |-> StrOr(ca, "reason",
                         "Target savings: $" \o NumOf(ca, "monthly_savings") \o "/mo"),
     source    |-> "User Decision",
     highlight |-> TRUE]

\* lines 123-130
DispatchStep(d) ==
    [category |-> "call",
     label    |-> "Dispatching Service Calls",
     detail   |-> StrOr(d, "message", "Initiating autonomous negotiation..."),
     source   |-> "Vapi"]

\* lines 97-131, with the dispatch test moved in front of the
\* confirmed_action test
TaskUpdatedPhaseFirst(acc, d) ==
    LET s1 == IF PropIs(d, "phase", "research") THEN Push(acc, ResearchStep(d)) ELSE acc
        s2 == IF PropIs(d, "phase", "research_complete") THEN Push(s1, StrategyStep) ELSE s1
        s3 == IF PropIs(d, "phase", "dispatch") THEN Push(s2, DispatchStep(d)) ELSE s2
        s4 == IF Has(d, "confirmed_action")
              THEN Push(s3, ConfirmedActionStep(d.confirmed_action)) ELSE s3
    IN  s4

\* lines 97-131: the four tests of the task_updated branch, in source order
TaskUpdated(acc, d) ==
    LET s1 == IF PropIs(d, "phase", "research") THEN Push(acc, ResearchStep(d)) ELSE acc
        s2 == IF PropIs(d, "phase", "research_complete") THEN Push(s1, StrategyStep) ELSE s1
        s3 == IF Has(d, "confirmed_action")
              THEN Push(s2, ConfirmedActionStep(d.confirmed_action)) ELSE s2
        s4 == IF PropIs(d, "phase", "dispatch") THEN Push(s3, DispatchStep(d)) ELSE s3
    IN  s4

\* lines 134-143: the own properties of the toolLabels object literal
ToolLabels ==
    [tavily_search |->
        [label  |-> "Web Intelligence Search",
         detail |-> "Searching competitor rates, retention offers, and market data",
         source |-> "Tavily"],
     search_task_context |->
        [label  |-> "Loading Task Context",
         detail |-> "Retrieving subscription details and negotiation parameters",
         source |-> "Context Store"],
     extract_entities |->
        [label  |-> "Entity Extraction",
         detail |-> "Parsing call for confirmation numbers, prices, account details",
         source |-> "GLiNER2"],
     update_neo4j |->
        [label  |-> "Knowledge Graph Update",
         detail |-> "Persisting negotiation results and subscription changes",
         source |-> "Neo4j"],
     end_task |->
        [label  |-> "Task Completed",
         detail |-> "Marking task as resolved with final outcome",
         source |-> "Haggle Engine"],
     get_subscription_analysis |->
        [label  |-> "Subscription Analysis",
         detail |-> "Analyzing user's subscription portfolio for optimization",
         source |-> "Analytics"],
     confirm_action |->
        [label  |-> "Action Confirmed",
         detail |-> "Recording user's confirmed decision",
         source |-> "User Input"],
     calculate_cost_per_use |->
        [label  |-> "Cost-Per-Use Analysis",
         detail |-> "Calculating actual value vs. cost of subscription",
         source |-> "Analytics"]]

\* Property names every object literal inherits from Object.prototype: a
\* lookup toolLabels[name] of one of them yields a function (truthy, no own
\* enumerable property), not undefined.
ObjectPrototypeNames ==
    {"constructor", "toString", "valueOf", "hasOwnProperty", "isPrototypeOf",
     "propertyIsEnumerable", "toLocaleString"}

\* line 144: toolLabels[d.tool] || { label: d.tool, detail: ..., source: ... }
ToolInfo(d) ==
    IF Has(d, "tool") /\ d.tool \in DOMAIN ToolLabels THEN ToolLabels[d.tool]
    ELSE IF Has(d, "tool") /\ d.tool \in ObjectPrototypeNames THEN EmptyObject
    ELSE WithCopied([detail |-> "Processing...", source |-> "Agent"], "label", d, "tool")

\* line 145: { category: "tool", ...info }
ToolStep(d) == With(ToolInfo(d), "category", "tool")

\* lines 150-155
RingingStep(d) ==
    [category |-> "call",
     label    |-> "Calling " \o StrOr(d, "company", "Provider"),
     detail   |-> "Connecting to service provider...",
     source   |-> "Vapi"]

\* lines 158-163
InProgressStep(d) ==
    [category |-> "call",
     label    |-> "Call Connected",
     detail   |-> "Live negotiation in progress"
                  \o (IF TruthyStr(d, "company") THEN " with " \o d.company ELSE ""),
     source   |-> "Vapi"]

\* lines 166-172 with the highlight of line 171 set for any outcome given
EndedStepAnyOutcome(d) ==
    [category  |-> "summary",
     label     |-> "Call Completed",
     detail    |-> "Duration: " \o NumOr(d, "duration_seconds", "?") \o "s"
                   \o (IF TruthyStr(d, "outcome") THEN " - " \o d.outcome ELSE ""),
     source    |-> "Vapi",
     highlight |-> TruthyStr(d, "outcome")]

\* lines 166-172
EndedStep(d) ==
    [category  |-> "summary",
     label     |-> "Call Completed",
     detail    |-> "Duration: " \o NumOr(d, "duration_seconds", "?") \o "s"
                   \o (IF TruthyStr(d, "outcome") THEN " - " \o d.outcome ELSE ""),
     source    |-> "Vapi",
     highlight |-> PropIs(d, "outcome", "success")]

\* lines 148-174 with a fourth test added: a status that is none of the
\* three gets a generic Step
CallStatusAnyStatus(acc, d) ==
    LET s1 == IF PropIs(d, "status", "ringing") THEN Push(acc, RingingStep(d)) ELSE acc
        s2 == IF PropIs(d, "status", "in_progress") THEN Push(s1, InProgressStep(d)) ELSE s1
        s3 == IF PropIs(d, "status", "ended") THEN Push(s2, EndedStep(d)) ELSE s2
    IN  IF s3 = acc
        THEN Push(acc, [category |-> "call", label |-> "Call Status",
                        detail |-> StrOf(d, "status"), source |-> "Vapi"])
        ELSE s3

\* lines 148-174
CallStatus(acc, d) ==
    LET s1 == IF PropIs(d, "status", "ringing") THEN Push(acc, RingingStep(d)) ELSE acc
        s2 == IF PropIs(d, "status", "in_progress") THEN Push(s1, InProgressStep(d)) ELSE s1
        s3 == IF PropIs(d, "status", "ended") THEN Push(s2, EndedStep(d)) ELSE s2
    IN  s3

\* lines 176-187
VoiceAnalysis(acc, d) ==
    LET insights == IF Has(d, "key_insights") THEN d.key_insights ELSE <<>>
    IN  IF Len(insights) > 0
        THEN Push(acc,
                  [category |-> "voice",
                   label    |-> "Voice Intelligence: " \o StrOr(d, "emotion", "Analysis"),
                   detail   |-> insights[1],
                   extras   |-> SliceRange(insights, 1, 3),
                   source   |-> "Modulate Velma 2"])
        ELSE acc

\* lines 190-196
EntityStep(d) ==
    WithCopied(
        WithCopied(
            [category |-> "entity",
             label    |-> ReplaceUnderscores(StrOr(d, "entity_type", "entity")),
             source   |-> StrOr(d, "extraction_source", "GLiNER2")],
            "detail", d, "value"),
        "extras", d, "gliner2_extras")

\* d.details?.monthly_savings is present and truthy (line 200)
HasSavings(d) ==
    Has(d, "details") /\ d.details # JSNull /\ TruthyNum(d.details, "monthly_savings")

\* lines 199-208
GraphStep(d) ==
    [category  |-> "graph",
     label     |-> "Knowledge Graph: " \o StrOr(d, "service", "Updated"),
     detail    |-> IF HasSavings(d)
                   THEN "Saved $" \o NumOf(d.details, "monthly_savings") \o "/mo ($"
                        \o NumOf(d.details, "annual_savings") \o "/yr)"
                   ELSE "Graph nodes updated",
     source    |-> "Neo4j",
     highlight |-> HasSavings(d)]

\* lines 211-216
BillStep(d) ==
    [category |-> "detection",
     label    |-> "Bill Scanned: " \o StrOr(d, "provider_name", "Provider"),
     detail   |-> "Total: $" \o NumOr(d, "total_amount", "?")
                  \o (IF TruthyStr(d, "price_change") THEN " - " \o d.price_change ELSE ""),
     source   |-> "Reka Vision"]

\* lines 220-227
CallSummaryStep(d) ==
    WithCopied(
        WithCopied(
            [category |-> "summary", label |-> "Agent Summary",
             source |-> "Haggle Agent", highlight |-> TRUE],
            "detail", d, "narrative"),
        "extras", d, "key_points")

\* lines 230-240
ModulateAnalysis(acc, d) ==
    LET perf == IF Has(d, "agent_performance") THEN d.agent_performance ELSE EmptyObject
    IN  IF Has(perf, "professionalism")
        THEN Push(acc,
                  [category |-> "voice",
                   label    |-> "Performance: " \o StrOf(perf.professionalism, "grade")
                                \o " Professionalism, "
                                \o (IF Has(perf, "privacy")
                                    THEN StrOr(perf.privacy, "grade", "?") ELSE "?")
                                \o " Privacy",
                   detail   |-> StrOr(perf, "summary_note", "Agent performance evaluated"),
                   source   |-> "Modulate"])
        ELSE acc

\* lines 243-248
PiiStep(d) ==
    [category |-> "detection",
     label    |-> "PII Protected: " \o NumOf(d, "count") \o " item"
                  \o (IF Has(d, "count") /\ d.count = 1 THEN "" ELSE "s")
                  \o " auto-redacted",
     detail   |-> "Sensitive data detected and removed from transcript",
     source   |-> "Modulate Safety"]

\* lines 94-250: one iteration of the for-of loop, acc being `steps`
LoopBody(acc, ev) ==
    LET d  == DataOf(ev)
        s1 == IF TypeIs(ev, "task_updated") THEN TaskUpdated(acc, d) ELSE acc
        s2 == IF TypeIs(ev, "tool_call") THEN Push(s1, ToolStep(d)) ELSE s1
        s3 == IF TypeIs(ev, "call_status") THEN CallStatus(s2, d) ELSE s2
        s4 == IF TypeIs(ev, "voice_analysis") THEN VoiceAnalysis(s3, d) ELSE s3
        s5 == IF TypeIs(ev, "entity_extracted") THEN Push(s4, EntityStep(d)) ELSE s4
        s6 == IF TypeIs(ev, "graph_updated") THEN Push(s5, GraphStep(d)) ELSE s5
        s7 == IF TypeIs(ev, "bill_analyzed") THEN Push(s6, BillStep(d)) ELSE s6
        s8 == IF TypeIs(ev, "call_summary") THEN Push(s7, CallSummaryStep(d)) ELSE s7
        s9 == IF TypeIs(ev, "modulate_analysis") THEN ModulateAnalysis(s8, d) ELSE s8
        s10 == IF TypeIs(ev, "pii_detected") THEN Push(s9, PiiStep(d)) ELSE s9
    IN  s10

\* the iterations lo..hi of the for-of loop, in order, from the accumulator
\* acc: the first half of them, then the second half from the accumulator
\* the first half leaves
RECURSIVE ScanRange(_, _, _, _)
ScanRange(evs, lo, hi, acc) ==
    IF lo > hi THEN acc
    ELSE IF lo = hi THEN LoopBody(acc, evs[lo])
    ELSE CHOOSE result \in {ScanRange(evs, (lo + hi) \div 2 + 1, hi, left) :
                                left \in {ScanRange(evs, lo, (lo + hi) \div 2, acc)}} :
             TRUE

\* the for-of loop from its i-th iteration on
ScanFrom(evs, i, acc) == ScanRange(evs, i, Len(evs), acc)

\* line 92 with the accumulator declared outside the function and never
\* emptied: a call starts from what the previous call left
StaleSteps(previous) == previous

\* line 92: const steps = [], whatever an earlier call left behind
FreshSteps(previous) == <<>>

\* lines 91-253
buildReasoningChain(evs) == ScanFrom(evs, 1, FreshSteps(<<>>))

(***************************************************************************)
(* Bounds of the model                                                     *)
(***************************************************************************)
\* messages delivered to the hook in a run of Spec
MaxArrivals == 4
\* messages delivered to the hook in a run of SpecRetention
MaxStream == 152
\* getGraph() requests issued in a run of SpecGraph
MaxFetches == 3
\* length of the history handed to buildReasoningChain in SpecChain
MaxChainLen == 2
\* calls of buildReasoningChain on the same history in SpecChain
MaxRuns == 2

(***************************************************************************)
(* Events the backend pushes (the payloads of the SSE messages)            *)
(***************************************************************************)
EvResearch ==
    [type |-> "task_updated", data |-> [phase |-> "research", message |-> "Researching Comcast"]]
EvResearchBare == [type |-> "task_updated", data |-> [phase |-> "research"]]
EvResearchComplete == [type |-> "task_updated", data |-> [phase |-> "research_complete"]]
EvDispatch == [type |-> "task_updated", data |-> [phase |-> "dispatch"]]
EvConfirmedOnly ==
    [type |-> "task_updated",
     data |-> [confirmed_action |->
                  [action |-> "negotiate_rate", service |-> "Comcast", monthly_savings |-> 20]]]
EvResearchConfirmed ==
    [type |-> "task_updated",
     data |-> [phase |-> "research",
               confirmed_action |->
                  [action |-> "cancel_service", service |-> "Netflix", reason |-> "Unused"]]]
EvCompleteConfirmed ==
    [type |-> "task_updated",
     data |-> [phase |-> "research_complete",
               confirmed_action |-> [action |-> "negotiate_rate", service |-> "Comcast"]]]
EvDispatchConfirmed ==
    [type |-> "task_updated",
     data |-> [phase |-> "dispatch",
               confirmed_action |->
                  [action |-> "negotiate_rate", service |-> "Comcast", monthly_savings |-> 20]]]
EvTasksOnly == [type |-> "task_updated", data |-> [tasks |-> <<"task-1", "task-2">>]]
EvReset == [type |-> "task_updated", data |-> [reset |-> TRUE]]
EvResetWithPhase == [type |-> "task_updated", data |-> [reset |-> TRUE, phase |-> "research"]]
EvResetFalse == [type |-> "task_updated", data |-> [reset |-> FALSE, phase |-> "dispatch"]]
EvResetOtherType == [type |-> "graph_updated", data |-> [reset |-> TRUE]]
EvToolKnown == [type |-> "tool_call", data |-> [tool |-> "tavily_search"]]
EvToolEndTask == [type |-> "tool_call", data |-> [tool |-> "end_task"]]
EvToolUnknown == [type |-> "tool_call", data |-> [tool |-> "send_email"]]
EvToolInherited == [type |-> "tool_call", data |-> [tool |-> "constructor"]]
EvToolAbsent == [type |-> "tool_call"]
EvRinging == [type |-> "call_status", data |-> [status |-> "ringing", company |-> "Comcast"]]
EvInProgress == [type |-> "call_status", data |-> [status |-> "in_progress"]]
EvEndedSuccess ==
    [type |-> "call_status",
     data |-> [status |-> "ended", outcome |-> "success", duration_seconds |-> 42]]
EvEndedFailed == [type |-> "call_status", data |-> [status |-> "ended", outcome |-> "failed"]]
EvEndedNoOutcome == [type |-> "call_status", data |-> [status |-> "ended"]]
EvAwaitingCall == [type |-> "call_status", data |-> [status |-> "awaiting_call"]]
EvVoice ==
    [type |-> "voice_analysis",
     data |-> [emotion |-> "Frustrated",
               key_insights |-> <<"Agent stayed calm", "Rep hesitated", "Rep offered discount",
                                  "Call ended politely">>]]
EvVoiceEmpty == [type |-> "voice_analysis", data |-> [emotion |-> "Calm"]]
EvEntity ==
    [type |-> "entity_extracted",
     data |-> [entity_type |-> "confirmation_number", value |-> "CNF-2026-8847"]]
EvEntityBare == [type |-> "entity_extracted", data |-> JSNull]
EvEntitySnake ==
    [type |-> "entity_extracted",
     data |-> [entity_type |-> "new_monthly_rate", value |-> "$65",
               extraction_source |-> "regex"]]
EvEntityNoValue == [type |-> "entity_extracted", data |-> [entity_type |-> "price"]]
EvEntityNoType == [type |-> "entity_extracted", data |-> [value |-> "$65"]]
EvGraphSavings ==
    [type |-> "graph_updated",
     data |-> [service |-> "Comcast",
               details |-> [monthly_savings |-> 20, annual_savings |-> 240]]]
EvGraphPlain == [type |-> "graph_updated", data |-> [service |-> "Comcast"]]
EvGraphAnnualOnly ==
    [type |-> "graph_updated",
     data |-> [service |-> "Comcast", details |-> [annual_savings |-> 240]]]
EvGraphMonthlyOnly ==
    [type |-> "graph_updated",
     data |-> [service |-> "Comcast", details |-> [monthly_savings |-> 20]]]
EvGraphBare == [type |-> "graph_updated"]
EvBill ==
    [type |-> "bill_analyzed",
     data |-> [provider_name |-> "Comcast", total_amount |-> 85, price_change |-> "+$30"]]
EvCallSummary ==
    [type |-> "call_summary",
     data |-> [narrative |-> "Rate lowered", key_points |-> <<"New rate $65">>]]
EvModulate ==
    [type |-> "modulate_analysis",
     data |-> [agent_performance |->
                  [professionalism |-> [grade |-> "A"], summary_note |-> "Polite throughout"]]]
EvModulateBare == [type |-> "modulate_analysis", data |-> [agent_performance |-> EmptyObject]]
EvPiiOne == [type |-> "pii_detected", data |-> [count |-> 1]]
EvPiiTwo == [type |-> "pii_detected", data |-> [count |-> 2]]
EvTranscript == [type |-> "transcript", data |-> [role |-> "agent", text |-> "Hello"]]
EvDetection == [type |-> "detection", data |-> [provider |-> "Comcast"]]
EvEmotion == [type |-> "emotion", data |-> [emotion |-> "Calm"]]
EvUnknownKind == [type |-> "heartbeat", data |-> EmptyObject]
EvUntyped == [note |-> "no type"]

\* the histories buildReasoningChain is exercised on are drawn from these
EventPool ==
    {EvResearch, EvResearchBare, EvResearchComplete, EvDispatch, EvConfirmedOnly,
     EvResearchConfirmed, EvCompleteConfirmed, EvDispatchConfirmed, EvTasksOnly,
     EvReset, EvToolKnown, EvToolUnknown, EvToolInherited, EvToolAbsent,
     EvRinging, EvInProgress, EvEndedSuccess, EvEndedFailed, EvAwaitingCall,
     EvVoice, EvVoiceEmpty, EvEntity, EvEntityBare, EvGraphSavings, EvGraphPlain,
     EvBill, EvCallSummary, EvModulate, EvModulateBare, EvPiiOne, EvPiiTwo,
     EvTranscript, EvDetection, EvEmotion, EvUnknownKind, EvUntyped,
     EvEntitySnake, EvEntityNoValue, EvEntityNoType,
     EvGraphAnnualOnly, EvGraphMonthlyOnly, EvGraphBare, EvToolEndTask,
     EvEndedNoOutcome}

(***************************************************************************)
(* useSSE (useSSE.js 23-65)                                                *)
(***************************************************************************)
\* lines 4-21
EVENT_TYPES ==
    {"task_updated", "call_started", "call_ended", "call_status", "call_summary",
     "transcript", "tool_call", "entity_extracted", "graph_updated", "emotion",
     "detection", "voice_analysis", "modulate_analysis", "pii_detected",
     "bill_analyzed"}

\* line 46: the retention bound of slice(-150)
MaxHistory == 150

\* An SSE message: its event name and its data text.  The text is either not
\* JSON at all, the JSON text null, or the JSON text of an object.
InvalidText == [kind |-> "invalid"]
NullText == [kind |-> "null"]
ObjectText(ev) == [kind |-> "object", value |-> ev]
Message(name, text) == [event |-> name, data |-> text]
MessageOf(ev) == Message(ev.type, ObjectText(ev))

\* line 38: JSON.parse(e.data) either throws or returns the value
JSONParse(text) ==
    IF text.kind = "invalid" THEN [threw |-> TRUE]
    ELSE IF text.kind = "null" THEN [threw |-> FALSE, value |-> JSNull]
    ELSE [threw |-> FALSE, value |-> text.value]

\* line 41: data.type === "task_updated" && data.data?.reset === true
IsReset(data) ==
    /\ TypeIs(data, "task_updated")
    /\ Has(data, "data")
    /\ data.data # JSNull
    /\ PropIs(data.data, "reset", TRUE)

\* line 46 with slice(0, 150) in place of slice(-150)
RetainOldest(arr) == SliceRange(arr, 0, MaxHistory)

\* line 46: [...prev, data].slice(-150), applied to [...prev, data]
Retain(arr) == SliceLast(arr, MaxHistory)

\* line 42 with the previous history kept
ResetKeepsHistory(prev) == prev

\* line 42: setEvents([])
ResetHistory(prev) == <<>>

\* line 48: data.type === "call_status" || data.type === "transcript"
SetsCallStatus(data) == TypeIs(data, "call_status") \/ TypeIs(data, "transcript")

\* lines 38-50 with the `return` of line 43 left out: the reset branch falls
\* through to the append of line 46 and to line 48
TryBlockResetFallsThrough(prevEvents, prevStatus, text) ==
    LET parsed == JSONParse(text)
        same   == [events |-> prevEvents, callStatus |-> prevStatus]
    IN  IF parsed.threw
        THEN [threw |-> TRUE, did |-> "dropped", state |-> same]
        ELSE IF parsed.value = JSNull
        THEN [threw |-> TRUE, did |-> "dropped", state |-> same]
        ELSE IF IsReset(parsed.value)
        THEN [threw |-> FALSE, did |-> "reset",
              state |-> [events |-> Retain(Append(ResetHistory(prevEvents), parsed.value)),
                         callStatus |-> prevStatus]]
        ELSE [threw |-> FALSE, did |-> "append", data |-> parsed.value,
              state |-> [events |-> Retain(Append(prevEvents, parsed.value)),
                         callStatus |-> IF SetsCallStatus(parsed.value)
                                        THEN parsed.value ELSE prevStatus]]

\* lines 38-50: the try block.  It ends by throwing (before any state was
\* set), by the reset branch's return, or by falling off its end.
TryBlock(prevEvents, prevStatus, text) ==
    LET parsed == JSONParse(text)
        same   == [events |-> prevEvents, callStatus |-> prevStatus]
    IN  IF parsed.threw
        THEN [threw |-> TRUE, did |-> "dropped", state |-> same]
        ELSE IF parsed.value = JSNull
        THEN [threw |-> TRUE, did |-> "dropped", state |-> same]
        ELSE IF IsReset(parsed.value)
        THEN [threw |-> FALSE, did |-> "reset",
              state |-> [events |-> ResetHistory(prevEvents), callStatus |-> prevStatus]]
        ELSE [threw |-> FALSE, did |-> "append", data |-> parsed.value,
              state |-> [events |-> Retain(Append(prevEvents, parsed.value)),
                         callStatus |-> IF SetsCallStatus(parsed.value)
                                        THEN parsed.value ELSE prevStatus]]

\* lines 36-52 without the try/catch
handlerUncaught(prevEvents, prevStatus, text) ==
    TryBlock(prevEvents, prevStatus, text)

\* lines 36-52: the handler; `catch {}` ends every throw of the try block
handler(prevEvents, prevStatus, text) ==
    [TryBlock(prevEvents, prevStatus, text) EXCEPT !.threw = FALSE]

(***************************************************************************)
(* App (App.jsx 53-165): the tabs with their badges, and the effect that   *)
(* reacts to the latest event.  App calls useSSE, so it renders again      *)
(* whenever the hook's state changes.                                      *)
(***************************************************************************)
\* lines 41-45
CENTER_TABS ==
    <<[key |-> "live", label |-> "Live Feed", badge |-> JSNull],
      [key |-> "reasoning", label |-> "AI Reasoning", badge |-> JSNull],
      [key |-> "history", label |-> "History", badge |-> JSNull]>>
\* lines 47-51
RIGHT_TABS ==
    <<[key |-> "monitor", label |-> "Monitor", badge |-> JSNull],
      [key |-> "intel", label |-> "Agent Intel", badge |-> JSNull],
      [key |-> "integrations", label |-> "Stack", badge |-> JSNull]>>

\* a badge: the class string of the dot, told from null
Badge(class) == [class |-> class]

\* events.some((e) => e.type === t) with the history of the previous render
\* counted as well
SomeOfTypeSticky(evs, t) ==
    \/ \E i \in DOMAIN evs : TypeIs(evs[i], t)
    \/ \E i \in DOMAIN events : TypeIs(events[i], t)

\* events.some((e) => e.type === t)
SomeOfType(evs, t) == \E i \in DOMAIN evs : TypeIs(evs[i], t)

\* line 134: events.some((e) => e.type === "call_status" && e.data?.status === "ended")
SomeEnded(evs) ==
    \E i \in DOMAIN evs :
        TypeIs(evs[i], "call_status") /\ PropIs(DataOf(evs[i]), "status", "ended")

\* lines 127-138: the callback of CENTER_TABS.map
CenterTab(tab, evs) ==
    IF tab.key = "live" /\ SomeOfType(evs, "transcript")
    THEN [tab EXCEPT !.badge = Badge("bg-accent-green animate-pulse")]
    ELSE IF tab.key = "reasoning"
            /\ (SomeOfType(evs, "tool_call") \/ SomeOfType(evs, "entity_extracted"))
    THEN [tab EXCEPT !.badge = Badge("bg-cyan-400")]
    ELSE IF tab.key = "history" /\ SomeEnded(evs)
    THEN [tab EXCEPT !.badge = Badge("bg-emerald-400")]
    ELSE tab

\* lines 140-148: the callback of RIGHT_TABS.map
RightTab(tab, evs) ==
    IF tab.key = "intel" /\ SomeOfType(evs, "voice_analysis")
    THEN [tab EXCEPT !.badge = Badge("bg-violet-400 animate-pulse")]
    ELSE IF tab.key = "monitor" /\ SomeOfType(evs, "detection")
    THEN [tab EXCEPT !.badge = Badge("bg-red-400")]
    ELSE tab

\* lines 127-138 and 140-148, for the history evs
CenterTabs(evs) == [i \in DOMAIN CENTER_TABS |-> CenterTab(CENTER_TABS[i], evs)]
RightTabs(evs) == [i \in DOMAIN RIGHT_TABS |-> RightTab(RIGHT_TABS[i], evs)]

\* lines 100-109: the toast of an awaiting_call event
AwaitingToast(d) ==
    [type    |-> "info",
     message |-> "Call " \o StrOr(d, "agent_phone_display", "(208) 675-1229") \o " now!",
     detail  |-> "You play " \o StrOr(d, "company", "the company")
                  \o " - the agent negotiates"]

\* line 113
SuccessToast == [type |-> "success", message |-> "Call completed successfully"]

\* lines 117-122: the toast of a graph_updated event that carries savings
SavingsToast(d) ==
    [type    |-> "savings",
     message |-> "Saved $" \o NumOf(d.details, "monthly_savings") \o "/mo ($"
                  \o NumOf(d.details, "annual_savings") \o "/yr)",
     detail  |-> StrOf(d, "service") \o " - " \o StrOr(d.details, "confirmation", "confirmed")]

\* line 90
IsLiveEvent(latest) ==
    \/ TypeIs(latest, "transcript")
    \/ TypeIs(latest, "call_status") /\ PropIs(DataOf(latest), "status", "in_progress")
\* line 95
IsVoiceEvent(latest) ==
    TypeIs(latest, "voice_analysis") \/ TypeIs(latest, "modulate_analysis")
\* line 100
IsAwaitingCall(latest) ==
    TypeIs(latest, "call_status") /\ PropIs(DataOf(latest), "status", "awaiting_call")
\* line 112 with the test of the outcome left out
IsEndedAnyOutcome(latest) ==
    TypeIs(latest, "call_status") /\ PropIs(DataOf(latest), "status", "ended")
\* line 112
IsEndedSuccess(latest) ==
    /\ TypeIs(latest, "call_status")
    /\ PropIs(DataOf(latest), "status", "ended")
    /\ PropIs(DataOf(latest), "outcome", "success")
\* line 116: latest.data?.details?.monthly_savings
IsSavingsEvent(latest) == TypeIs(latest, "graph_updated") /\ HasSavings(DataOf(latest))

\* lines 87-123: what the body of the effect sets, app being the state
\* [centerTab, rightTab, toast, demoRunning] it starts from
Reaction(latest, app) ==
    [centerTab   |-> IF IsLiveEvent(latest) THEN 0 ELSE app.centerTab,
     rightTab    |-> IF IsVoiceEvent(latest) THEN 1 ELSE app.rightTab,
     toast       |-> IF IsSavingsEvent(latest) THEN SavingsToast(DataOf(latest))
                     ELSE IF IsEndedSuccess(latest) THEN SuccessToast
                     ELSE IF IsAwaitingCall(latest) THEN AwaitingToast(DataOf(latest))
                     ELSE app.toast,
     demoRunning |-> IF IsAwaitingCall(latest) \/ IsEndedSuccess(latest)
                     THEN FALSE ELSE app.demoRunning]

\* the effect has handled no event
NoReaction == [none |-> TRUE]
Handled(latest) == [latest |-> latest]

\* line 124 with the dependency taken to be the history itself: the effect
\* runs after every render in which the history is another array
EffectDueOnChange(before, after) == TRUE

\* line 124: the dependency array [events.length]; React runs the effect
\* after a render only when the length differs from the previous render's
EffectDue(before, after) == Len(before) # Len(after)

\* lines 85-124: the effect after the render that follows a change of the
\* history from `before` to `after`; ran tells whether its body got past
\* line 86
Effect(before, after, app) ==
    IF EffectDue(before, after) /\ Len(after) # 0
    THEN [ran |-> TRUE, app |-> Reaction(after[Len(after)], app)]
    ELSE [ran |-> FALSE, app |-> app]

\* lines 54-60 and the first render: no event yet, so no badge, and the
\* effect has returned at line 86
InitApp ==
    /\ demoRunning = FALSE
    /\ toast = JSNull
    /\ centerTab = 0
    /\ rightTab = 0
    /\ centerTabsWithBadges = CenterTabs(<<>>)
    /\ rightTabsWithBadges = RightTabs(<<>>)
    /\ runDemoPending = 0
    /\ reacted = NoReaction
    /\ demoRuns = 0
    /\ script = <<>>

\* the four pieces of state the effect sets
AppState == [centerTab |-> centerTab, rightTab |-> rightTab, toast |-> toast,
             demoRunning |-> demoRunning]

\* App renders with the history `after` in place of `before`, and its
\* effect runs if it is due
AppRender(before, after) ==
    /\ centerTabsWithBadges' = CenterTabs(after)
    /\ rightTabsWithBadges' = RightTabs(after)
    /\ reacted' = IF Effect(before, after, AppState).ran
                  THEN Handled(after[Len(after)]) ELSE NoReaction
    /\ centerTab' = Effect(before, after, AppState).app.centerTab
    /\ rightTab' = Effect(before, after, AppState).app.rightTab
    /\ toast' = Effect(before, after, AppState).app.toast
    /\ demoRunning' = Effect(before, after, AppState).app.demoRunning

\* lines 24-27, after the effect of lines 29-56 has run
InitSSE ==
    /\ events = <<>>
    /\ connected = FALSE
    /\ callStatus = JSNull
    /\ esClosed = FALSE
    /\ received = <<>>
    /\ lastOp = [kind |-> "mount"]
    /\ resetSeen = FALSE
    /\ drops = 0
    /\ escaped = FALSE
    /\ arrivals = 0

\* line 33 with the history cleared on (re)connection
OnOpenClearsHistory ==
    /\ ~esClosed
    /\ ~connected
    /\ connected' = TRUE
    /\ events' = <<>>
    /\ lastOp' = [kind |-> "open"]
    /\ UNCHANGED <<callStatus, esClosed, received, resetSeen, drops, escaped, arrivals>>

\* line 33: es.onopen, fired when the connection is (re)established
OnOpen ==
    /\ ~esClosed
    /\ ~connected
    /\ connected' = TRUE
    /\ lastOp' = [kind |-> "open"]
    /\ UNCHANGED <<events, callStatus, esClosed, received, resetSeen, drops, escaped, arrivals>>

\* line 34: es.onerror, fired when the connection fails or is lost
OnError ==
    /\ ~esClosed
    /\ connected' = FALSE
    /\ lastOp' = [kind |-> "error"]
    /\ UNCHANGED <<events, callStatus, esClosed, received, resetSeen, drops, escaped, arrivals>>

\* lines 58-61: the effect cleanup closes the EventSource
Cleanup ==
    /\ ~esClosed
    /\ esClosed' = TRUE
    /\ lastOp' = [kind |-> "close"]
    /\ UNCHANGED <<events, connected, callStatus, received, resetSeen, drops, escaped, arrivals>>

\* lines 36-56: the EventSource, while open, dispatches one message.  A
\* message whose event name has no listener reaches no code of the hook.
\* The state the handler sets makes App render again (App.jsx 54, 85-148).
Dispatch(msg, limit) ==
    /\ ~esClosed
    /\ connected
    /\ arrivals < limit
    /\ arrivals' = arrivals + 1
    /\ IF msg.event \in EVENT_TYPES
       THEN LET r == handler(events, callStatus, msg.data)
            IN  /\ events' = r.state.events
                /\ callStatus' = r.state.callStatus
                /\ escaped' = (escaped \/ r.threw)
                /\ lastOp' = IF r.did = "append"
                             THEN [kind |-> "append", data |-> r.data,
                                   before |-> Len(events),
                                   wiped |-> IF lastOp.kind = "reset"
                                             THEN lastOp.before ELSE -1]
                             ELSE [kind |-> r.did, before |-> Len(events)]
                /\ received' = CASE r.did = "append" -> Append(received, r.data)
                                 [] r.did = "reset"  -> <<>>
                                 [] OTHER            -> received
                /\ resetSeen' = (resetSeen \/ r.did = "reset")
                /\ drops' = IF r.did = "dropped" THEN drops + 1 ELSE drops
       ELSE /\ lastOp' = [kind |-> "unheard"]
            /\ UNCHANGED <<events, callStatus, escaped, received, resetSeen, drops>>
    /\ AppRender(events, events')
    /\ UNCHANGED <<connected, esClosed>>

(***************************************************************************)
(* computeLayout (KnowledgeGraph.jsx 169-244)                              *)
(*                                                                         *)
(* A link endpoint is a bare id (a JavaScript string, written Bare(id)),   *)
(* an embedded node object, null, or absent.  positions is the object      *)
(* literal of line 178: a function from property keys to {x, y} records.   *)
(***************************************************************************)
Bare(id) == [bare |-> id]

\* the value undefined, where it has to be told from a value
Undefined == [undefined |-> TRUE]
Defined(v) == [value |-> v]

\* a member an object literal inherits from Object.prototype: a function,
\* truthy, with neither x nor y
InheritedMember == [inherited |-> TRUE]

\* lines 240, 243: typeof null is "object", so null.id is read and throws
EndThrows(link, end) == Has(link, end) /\ link[end] = JSNull

\* lines 240, 243 without the typeof test: the endpoint is used as given, and
\* an embedded object, used as an id or as a property key, is "[object Object]"
EndIdAsGiven(link, end) ==
    IF ~Has(link, end) THEN Undefined
    ELSE IF Has(link[end], "bare") THEN Defined(link[end].bare)
    ELSE Defined("[object Object]")

\* lines 240, 243: typeof v === "object" ? v.id : v
EndId(link, end) ==
    IF ~Has(link, end) THEN Undefined
    ELSE IF Has(link[end], "bare") THEN Defined(link[end].bare)
    ELSE IF Has(link[end], "id") THEN Defined(link[end].id)
    ELSE Undefined

\* lines 239-241
sourceId(link) == EndId(link, "source")
\* lines 242-244
targetId(link) == EndId(link, "target")

\* ref === id, for a node id
IdIs(ref, id) == ref # Undefined /\ ref.value = id

\* the property key a value is converted to in positions[value]
KeyOf(ref) == IF ref = Undefined THEN "undefined" ELSE ref.value

\* positions[key]: own property, inherited member, or undefined
PositionAt(positions, key) ==
    IF key \in DOMAIN positions THEN positions[key]
    ELSE IF key \in ObjectPrototypeNames THEN InheritedMember
    ELSE Undefined

\* truthiness of what PositionAt yields
Truthy(v) == v # Undefined

\* line 179
CX == 250
CY == 80
\* line 185
serviceY == 180
\* line 186
serviceSpacing == 180

\* the test of line 171 made on the Service nodes instead of all nodes
NoServiceNodes(nodes) ==
    SelectSeq(nodes, LAMBDA n : PropIs(n, "label", "Service")) = <<>>

\* line 171: nodes.length === 0
NoNodes(nodes) == Len(nodes) = 0

\* line 174: nodes.find((n) => n.label === "Person")
FindPerson(nodes) ==
    LET idx == {i \in DOMAIN nodes : PropIs(nodes[i], "label", "Person")}
    IN  IF idx = {} THEN Undefined
        ELSE Defined(nodes[CHOOSE i \in idx : \A j \in idx : i <= j])

\* line 182: if (person) positions[person.id] = { x: CX, y: CY }
PlacePerson(positions, person) ==
    IF person = Undefined THEN positions
    ELSE With(positions, person.value.id, [x |-> CX, y |-> CY])

\* line 187 without the centring term: the band starts at the anchor's x
serviceStartXAtAnchor(n) == CX

\* line 187, for n Service nodes
serviceStartX(n) == CX - ((n - 1) * serviceSpacing) \div 2

\* lines 188-190: services.forEach from its k-th element on (i = k - 1)
RECURSIVE PlaceServices(_, _, _)
PlaceServices(positions, services, k) ==
    IF k > Len(services) THEN positions
    ELSE PlaceServices(
             With(positions, services[k].id,
                  [x |-> serviceStartX(Len(services)) + (k - 1) * serviceSpacing,
                   y |-> serviceY]),
             services, k + 1)

\* lines 196-197: the predicate of links.find on one link, with the order in
\* which it evaluates sourceId and targetId: "throws", "match" or "no"
LinkTest(l, neg, services) ==
    IF EndThrows(l, "source") THEN "throws"
    ELSE IF ~IdIs(sourceId(l), neg.id) /\ EndThrows(l, "target") THEN "throws"
    ELSE IF ~(IdIs(sourceId(l), neg.id) \/ IdIs(targetId(l), neg.id)) THEN "no"
    ELSE IF Len(services) = 0 THEN "no"
    ELSE IF EndThrows(l, "target")
         THEN (IF IdIs(sourceId(l), services[1].id) THEN "match" ELSE "throws")
    ELSE IF \E k \in DOMAIN services :
                \/ IdIs(sourceId(l), services[k].id)
                \/ IdIs(targetId(l), services[k].id)
         THEN "match"
    ELSE "no"

\* lines 195-198: links.find from the k-th link on
RECURSIVE FindLink(_, _, _, _)
FindLink(links, k, neg, services) ==
    IF k > Len(links) THEN [kind |-> "none"]
    ELSE LET test == LinkTest(links[k], neg, services)
         IN  IF test = "throws" THEN [kind |-> "throws"]
             ELSE IF test = "match" THEN [kind |-> "found", link |-> links[k]]
             ELSE FindLink(links, k + 1, neg, services)

\* line 203: { x: sp.x + 20 * (i + 1), y: sp.y + 60 }
OutcomeBelow(sp, i) ==
    IF Has(sp, "x") THEN [x |-> sp.x + 20 * (i + 1), y |-> sp.y + 60]
    ELSE [nan |-> TRUE]

\* line 207: { x: CX + 60 * i, y: 240 }
OutcomeFallback(i) == [x |-> CX + 60 * i, y |-> 240]

\* line 200: sourceId(link) === neg.id ? targetId(link) : sourceId(link)
ServiceIdOf(link, neg) ==
    IF IdIs(sourceId(link), neg.id) THEN targetId(link) ELSE sourceId(link)

\* lines 201-204: const sp = positions[serviceId]; if (sp) positions[neg.id] = ...
PlaceLinked(positions, serviceId, neg, i) ==
    IF Truthy(PositionAt(positions, KeyOf(serviceId)))
    THEN With(positions, neg.id, OutcomeBelow(PositionAt(positions, KeyOf(serviceId)), i))
    ELSE positions

\* lines 206-208: if (!positions[neg.id]) positions[neg.id] = ...
PlaceFallback(positions, neg, i) ==
    IF ~Truthy(PositionAt(positions, neg.id))
    THEN With(positions, neg.id, OutcomeFallback(i))
    ELSE positions

\* lines 199-208, found being what links.find came to
PlaceFound(positions, found, neg, i) ==
    IF found.kind = "throws" THEN [threw |-> TRUE]
    ELSE IF found.kind = "none"
         THEN [threw |-> FALSE, positions |-> PlaceFallback(positions, neg, i)]
    ELSE IF IdIs(sourceId(found.link), neg.id) /\ EndThrows(found.link, "target")
         THEN [threw |-> TRUE]
    ELSE [threw |-> FALSE,
          positions |-> PlaceFallback(
                            PlaceLinked(positions, ServiceIdOf(found.link, neg), neg, i),
                            neg, i)]

\* lines 193-209: the forEach callback for the negotiation neg of index i;
\* graphData.links may be missing
PlaceNegotiation(positions, g, services, neg, i) ==
    IF ~Has(g, "links") THEN [threw |-> TRUE]
    ELSE PlaceFound(positions, FindLink(g.links, 1, neg, services), neg, i)

\* lines 193-209: negotiations.forEach from its k-th element on (i = k - 1),
\* one being what the callback did for the element before
RECURSIVE PlaceNegotiations(_, _, _, _, _)
PlaceRest(one, g, services, negotiations, k) ==
    IF one.threw THEN one
    ELSE PlaceNegotiations(one.positions, g, services, negotiations, k)

PlaceNegotiations(positions, g, services, negotiations, k) ==
    IF k > Len(negotiations) THEN [threw |-> FALSE, positions |-> positions]
    ELSE PlaceRest(PlaceNegotiation(positions, g, services, negotiations[k], k - 1),
                   g, services, negotiations, k + 1)

\* a JavaScript number, where it has to be told from a boolean
Num(v) == [number |-> v]

\* line 218: n.label === "Negotiation" || (n.properties?.previousRate &&
\* n.properties.previousRate !== n.properties.monthlyRate); the value is
\* true, false, undefined (no properties, no previousRate) or the falsy
\* previousRate itself
Active(n) ==
    IF PropIs(n, "label", "Negotiation") THEN Defined(TRUE)
    ELSE IF ~Has(n, "properties") \/ n.properties = JSNull THEN Undefined
    ELSE IF ~Has(n.properties, "previousRate") THEN Undefined
    ELSE IF n.properties.previousRate = 0 THEN Num(0)
    ELSE Defined(~(/\ Has(n.properties, "monthlyRate")
                   /\ n.properties.monthlyRate = n.properties.previousRate))

\* line 29: active ? `shadow-lg ${style.glow}` : "" -- NodeCard shows the
\* node as active when the value is truthy
Glows(active) == active = Defined(TRUE)

\* lines 214-219: the item of one positioned node
PositionedItem(positions, n) ==
    LET p    == PositionAt(positions, n.id)
        item == IF Has(p, "x") THEN [node |-> n, x |-> p.x, y |-> p.y] ELSE [node |-> n]
    IN  With(item, "active", Active(n))

\* lines 212-219
Positioned(positions, nodes) ==
    LET kept == SelectSeq(nodes, LAMBDA n : Truthy(PositionAt(positions, n.id)))
    IN  [i \in DOMAIN kept |-> PositionedItem(positions, kept[i])]

\* lines 10-13
EDGE_LABELS == [SUBSCRIBES_TO |-> "subscribes to", NEGOTIATED |-> "negotiated"]

\* line 223: the filter predicate on one link, with the order in which it
\* evaluates sourceId and targetId: "throws", "kept" or "dropped"
EdgeTest(positions, l) ==
    IF EndThrows(l, "source") THEN "throws"
    ELSE IF ~Truthy(PositionAt(positions, KeyOf(sourceId(l)))) THEN "dropped"
    ELSE IF EndThrows(l, "target") THEN "throws"
    ELSE IF Truthy(PositionAt(positions, KeyOf(targetId(l)))) THEN "kept"
    ELSE "dropped"

\* line 230: EDGE_LABELS[l.type] || l.type?.replace(/_/g, " ")
EdgeLabel(l) ==
    IF ~Has(l, "type") THEN Undefined
    ELSE IF l.type \in DOMAIN EDGE_LABELS THEN Defined(EDGE_LABELS[l.type])
    ELSE IF l.type \in ObjectPrototypeNames THEN Defined(InheritedMember)
    ELSE Defined(ReplaceUnderscores(l.type))

\* lines 225-232: the rendered edge of one kept link; a coordinate read from
\* an inherited member is undefined
Edge(positions, l) ==
    LET sp == PositionAt(positions, KeyOf(sourceId(l)))
        tp == PositionAt(positions, KeyOf(targetId(l)))
        e0 == EmptyObject
        e1 == IF Has(sp, "x") THEN With(With(e0, "x1", sp.x), "y1", sp.y) ELSE e0
        e2 == IF Has(tp, "x") THEN With(With(e1, "x2", tp.x), "y2", tp.y) ELSE e1
        e3 == IF EdgeLabel(l) = Undefined THEN e2 ELSE With(e2, "label", EdgeLabel(l).value)
        e4 == IF Has(l, "properties") /\ l.properties # JSNull
              THEN WithCopied(e3, "status", l.properties, "status") ELSE e3
    IN  e4

\* lines 222-233; graphData.links may be missing
Edges(positions, g) ==
    IF ~Has(g, "links") THEN [threw |-> TRUE]
    ELSE IF \E i \in DOMAIN g.links : EdgeTest(positions, g.links[i]) = "throws"
         THEN [threw |-> TRUE]
    ELSE LET kept == SelectSeq(g.links, LAMBDA l : EdgeTest(positions, l) = "kept")
         IN  [threw |-> FALSE,
              edges |-> [i \in DOMAIN kept |-> Edge(positions, kept[i])]]

\* line 178 with positions declared outside the function and never emptied:
\* a call starts from what the previous call left
StalePositions(previous) == previous

\* line 178: const positions = {}, whatever an earlier call left behind
FreshPositions(previous) == EmptyObject

\* lines 211-235: positioned, edges and the return
BuildLayout(g, positions, edges) ==
    IF edges.threw THEN [threw |-> TRUE, positions |-> positions]
    ELSE [threw |-> FALSE, positions |-> positions,
          positioned |-> Positioned(positions, g.nodes),
          edges |-> edges.edges]

\* lines 192-235, placed being what negotiations.forEach came to
LayoutOutcomes(g, p2, placed) ==
    IF placed.threw THEN [threw |-> TRUE, positions |-> p2]
    ELSE BuildLayout(g, placed.positions, Edges(placed.positions, g))

\* lines 192-235, p2 being positions with the Person and the Services placed
LayoutServices(g, services, negotiations, p2) ==
    LayoutOutcomes(g, p2, PlaceNegotiations(p2, g, services, negotiations, 1))

\* lines 178-235
LayoutNodes(g, previous, services, negotiations) ==
    LayoutServices(g, services, negotiations,
                   PlaceServices(PlacePerson(FreshPositions(previous), FindPerson(g.nodes)),
                                 services, 1))

\* lines 169-236, previous being the positions object of the call before:
\* the call throws, or returns positioned and edges; positions is the object
\* the call leaves behind
LayoutRun(g, previous) ==
    IF g = JSNull \/ ~Has(g, "nodes") THEN [threw |-> TRUE, positions |-> previous]
    ELSE IF NoNodes(g.nodes)
         THEN [threw |-> FALSE, positions |-> previous,
               positioned |-> <<>>, edges |-> <<>>]
    ELSE LayoutNodes(g, previous,
                     SelectSeq(g.nodes, LAMBDA n : PropIs(n, "label", "Service")),
                     SelectSeq(g.nodes, LAMBDA n : PropIs(n, "label", "Negotiation")))

\* what a call hands to its caller
Outcome(run) ==
    IF run.threw THEN [threw |-> TRUE]
    ELSE [threw |-> FALSE, positioned |-> run.positioned, edges |-> run.edges]

\* lines 169-236
computeLayout(snapshot) == Outcome(LayoutRun(snapshot, EmptyObject))

(***************************************************************************)
(* KnowledgeGraph's snapshot fetch (KnowledgeGraph.jsx 93-103) and         *)
(* api.request (api.js 3-10)                                               *)
(***************************************************************************)
\* line 94: useState({ nodes: [], links: [] })
SnapEmpty == [nodes |-> <<>>, links |-> <<>>]

NodePerson == [id |-> "p1", label |-> "Person", name |-> "Neel", properties |-> EmptyObject]
NodeComcast ==
    [id |-> "s1", label |-> "Service", name |-> "Comcast",
     properties |-> [monthlyRate |-> 85]]
NodeComcastLowered ==
    [id |-> "s1", label |-> "Service", name |-> "Comcast",
     properties |-> [monthlyRate |-> 65, previousRate |-> 85]]
NodeNetflix ==
    [id |-> "s2", label |-> "Service", name |-> "Netflix",
     properties |-> [monthlyRate |-> 15]]
LinkSubscribes(target) ==
    [source |-> Bare("p1"), target |-> Bare(target), type |-> "SUBSCRIBES_TO",
     properties |-> EmptyObject]

\* snapshots GET /api/graph answers with as the store changes
SnapBefore ==
    [nodes |-> <<NodePerson, NodeComcast, NodeNetflix>>,
     links |-> <<LinkSubscribes("s1"), LinkSubscribes("s2")>>]
SnapAfter ==
    [nodes |-> <<NodePerson, NodeComcastLowered, NodeNetflix>>,
     links |-> <<LinkSubscribes("s1"), LinkSubscribes("s2")>>]

\* nodes whose properties carry a previous rate
NodeNetflixSame ==
    [id |-> "s2", label |-> "Service", name |-> "Netflix",
     properties |-> [monthlyRate |-> 15, previousRate |-> 15]]
NodeHuluFromFree ==
    [id |-> "s3", label |-> "Service", name |-> "Hulu",
     properties |-> [monthlyRate |-> 18, previousRate |-> 0]]
NodePersonRated ==
    [id |-> "p1", label |-> "Person", name |-> "Neel",
     properties |-> [monthlyRate |-> 65, previousRate |-> 85]]
NodeHulu ==
    [id |-> "s3", label |-> "Service", name |-> "Hulu",
     properties |-> [monthlyRate |-> 18]]
NodeDeal(id, name) ==
    [id |-> id, label |-> "Negotiation", name |-> name,
     properties |-> [status |-> "completed", savings |-> 20]]
LinkNegotiated(neg, service) ==
    [source |-> Bare(neg), target |-> Bare(service), type |-> "NEGOTIATED",
     properties |-> [status |-> "completed"]]
\* a link as force-graph leaves it: the endpoints replaced by the node objects
LinkEmbedded(sourceNode, targetNode) ==
    [source |-> sourceNode, target |-> targetNode, type |-> "SUBSCRIBES_TO",
     properties |-> EmptyObject]

\* the link with its endpoints replaced by node objects
EmbedSource(link, node) == [link EXCEPT !.source = node]
EmbedTarget(link, node) == [link EXCEPT !.target = node]

\* snapshots of every shape computeLayout distinguishes; node ids are unique
\* and there is at most one Person
SnapPersonOnly == [nodes |-> <<NodePerson>>, links |-> <<>>]
SnapOneService ==
    [nodes |-> <<NodePerson, NodeComcast>>, links |-> <<LinkSubscribes("s1")>>]
SnapThreeServices ==
    [nodes |-> <<NodePerson, NodeComcast, NodeNetflix, NodeHulu>>,
     links |-> <<LinkSubscribes("s1"), LinkSubscribes("s2"), LinkSubscribes("s3")>>]
SnapNoPerson == [nodes |-> <<NodeComcast, NodeNetflix>>, links |-> <<>>]
SnapNegotiated ==
    [nodes |-> <<NodePerson, NodeComcastLowered, NodeNetflix, NodeDeal("n1", "Comcast deal")>>,
     links |-> <<LinkSubscribes("s1"), LinkSubscribes("s2"), LinkNegotiated("n1", "s1")>>]
SnapTwoOutcomes ==
    [nodes |-> <<NodePerson, NodeComcastLowered,
                 NodeDeal("n1", "Comcast deal"), NodeDeal("n2", "Comcast credit")>>,
     links |-> <<LinkSubscribes("s1"), LinkNegotiated("n1", "s1"),
                 LinkNegotiated("n2", "s1")>>]
SnapUnlinkedOutcome ==
    [nodes |-> <<NodePerson, NodeComcast,
                 NodeDeal("n1", "Comcast deal"), NodeDeal("n2", "Pending deal")>>,
     links |-> <<LinkSubscribes("s1"), LinkNegotiated("n1", "s1")>>]
SnapOutcomesCollide ==
    [nodes |-> <<NodePerson, NodeComcast, NodeDeal("n1", "Comcast deal"),
                 NodeDeal("n2", "Pending deal"), NodeDeal("n3", "Comcast credit")>>,
     links |-> <<LinkSubscribes("s1"), LinkNegotiated("n1", "s1"),
                 LinkNegotiated("n3", "s1")>>]
SnapOutcomeNoService ==
    [nodes |-> <<NodePerson, NodeDeal("n1", "Pending deal")>>, links |-> <<>>]
SnapDangling ==
    [nodes |-> <<NodePerson, NodeComcast>>,
     links |-> <<LinkSubscribes("s1"), LinkSubscribes("s2")>>]
SnapDanglingInherited ==
    [nodes |-> <<NodePerson, NodeComcast>>,
     links |-> <<LinkSubscribes("s1"), LinkSubscribes("constructor")>>]
SnapDuplicateLink ==
    [nodes |-> <<NodePerson, NodeComcast>>,
     links |-> <<LinkSubscribes("s1"), LinkSubscribes("s1")>>]
SnapEmbedded ==
    [nodes |-> <<NodePerson, NodeComcast, NodeNetflix>>,
     links |-> <<LinkEmbedded(NodePerson, NodeComcast), LinkSubscribes("s2")>>]
SnapEmbeddedDangling ==
    [nodes |-> <<NodePerson, NodeComcast>>,
     links |-> <<LinkSubscribes("s1"), LinkEmbedded(NodePerson, NodeNetflix)>>]
\* SnapNegotiated with endpoints embedded: one end of a link, and both ends
SnapNegotiatedEmbedded ==
    [nodes |-> <<NodePerson, NodeComcastLowered, NodeNetflix, NodeDeal("n1", "Comcast deal")>>,
     links |-> <<LinkSubscribes("s1"),
                 EmbedTarget(LinkSubscribes("s2"), NodeNetflix),
                 EmbedTarget(EmbedSource(LinkNegotiated("n1", "s1"),
                                         NodeDeal("n1", "Comcast deal")),
                             NodeComcastLowered)>>]
\* SnapUnlinkedOutcome with the outcome's link given service-first, embedded
SnapOutcomeEmbedded ==
    [nodes |-> <<NodePerson, NodeComcast,
                 NodeDeal("n1", "Comcast deal"), NodeDeal("n2", "Pending deal")>>,
     links |-> <<EmbedSource(LinkSubscribes("s1"), NodePerson),
                 EmbedSource(LinkNegotiated("n1", "s1"), NodeDeal("n1", "Comcast deal"))>>]
SnapRates ==
    [nodes |-> <<NodePerson, NodeComcastLowered, NodeNetflixSame,
                 NodeDeal("n1", "Comcast deal")>>,
     links |-> <<LinkSubscribes("s1"), LinkSubscribes("s2"), LinkNegotiated("n1", "s1")>>]
SnapFromFree ==
    [nodes |-> <<NodePerson, NodeHuluFromFree>>, links |-> <<LinkSubscribes("s3")>>]
SnapPersonRated ==
    [nodes |-> <<NodePersonRated, NodeComcast>>, links |-> <<LinkSubscribes("s1")>>]
\* snapshots that lack required structure
SnapNoNodes == [links |-> <<>>]
SnapNoLinks == [nodes |-> <<NodePerson, NodeComcast>>]
SnapNoLinksNoNodes == [nodes |-> <<>>]
SnapNullTarget ==
    [nodes |-> <<NodePerson, NodeComcast>>,
     links |-> <<LinkSubscribes("s1"),
                 [source |-> Bare("p1"), target |-> JSNull, type |-> "SUBSCRIBES_TO"]>>]
SnapNullSource ==
    [nodes |-> <<NodePerson, NodeComcast>>,
     links |-> <<[source |-> JSNull, target |-> Bare("s1"), type |-> "SUBSCRIBES_TO"]>>]

SnapshotPool ==
    {SnapEmpty, SnapBefore, SnapAfter, SnapPersonOnly, SnapOneService,
     SnapThreeServices, SnapNoPerson, SnapNegotiated, SnapTwoOutcomes,
     SnapUnlinkedOutcome, SnapOutcomesCollide, SnapOutcomeNoService, SnapDangling,
     SnapDanglingInherited, SnapDuplicateLink, SnapEmbedded, SnapEmbeddedDangling,
     SnapRates, SnapFromFree, SnapPersonRated, SnapNegotiatedEmbedded,
     SnapOutcomeEmbedded,
     SnapNoNodes, SnapNoLinks, SnapNoLinksNoNodes, SnapNullTarget, SnapNullSource}

\* What fetch() can end with: no response at all, or a response with a
\* status and a body text.
NetworkError == [kind |-> "network_error"]
Response(ok, text) == [kind |-> "response", ok |-> ok, body |-> text]
ResponsePool ==
    {NetworkError,
     Response(FALSE, ObjectText([detail |-> "Internal Server Error"])),
     Response(TRUE, InvalidText),
     Response(TRUE, ObjectText(SnapEmpty)),
     Response(TRUE, ObjectText(SnapBefore)),
     Response(TRUE, ObjectText(SnapAfter))}

\* the fetch did not deliver a snapshot
FailedResponse(resp) ==
    resp.kind = "network_error" \/ ~resp.ok \/ resp.body.kind = "invalid"

Fulfilled(v) == [state |-> "fulfilled", value |-> v]
Rejected == [state |-> "rejected"]

\* api.js 9 alone: the status test of line 8 left out
requestIgnoresStatus(resp) ==
    IF resp.kind = "network_error" THEN Rejected
    ELSE LET parsed == JSONParse(resp.body)
         IN  IF parsed.threw THEN Rejected ELSE Fulfilled(parsed.value)

\* api.js 3-10: the promise request() returns, once settled
request(resp) ==
    IF resp.kind = "network_error" THEN Rejected
    ELSE IF ~resp.ok THEN Rejected
    ELSE LET parsed == JSONParse(resp.body)
         IN  IF parsed.threw THEN Rejected ELSE Fulfilled(parsed.value)

\* .then(setGraphData): the promise it returns
ThenSetGraphData(p) ==
    IF p.state = "fulfilled" THEN [state |-> "fulfilled"] ELSE p

\* .catch(() => {}): the promise it returns
CatchIgnore(p) == [state |-> "fulfilled"]

\* lines 94-106, after the first render and the effect: the empty snapshot
\* is laid out, the first request is in flight and the interval timer is
\* armed
InitGraph ==
    /\ graphData = SnapEmpty
    /\ layout = computeLayout(SnapEmpty)
    /\ lastPositions = EmptyObject
    /\ seen = {[snap |-> SnapEmpty, layout |-> computeLayout(SnapEmpty)]}
    /\ loading = TRUE
    /\ intervalOn = TRUE
    /\ inflight = {[seq |-> 1, first |-> TRUE]}
    /\ issued = 1
    /\ shownSeq = 0
    /\ failedSeqs = {}
    /\ unhandled = FALSE
    /\ lastFetch = [op |-> "mount"]

\* lines 99-101: the interval fires and issues the next getGraph()
Tick ==
    /\ intervalOn
    /\ issued < MaxFetches
    /\ issued' = issued + 1
    /\ inflight' = inflight \cup {[seq |-> issued + 1, first |-> FALSE]}
    /\ lastFetch' = [op |-> "tick", seq |-> issued + 1]
    /\ UNCHANGED <<graphData, loading, intervalOn, layout, lastPositions, seen, shownSeq,
                   failedSeqs, unhandled>>

\* line 102: the cleanup clears the interval; the component is unmounted and
\* React ignores the state updates of requests that settle later
Unmount ==
    /\ intervalOn
    /\ intervalOn' = FALSE
    /\ lastFetch' = [op |-> "unmount"]
    /\ UNCHANGED <<graphData, loading, inflight, issued, layout, lastPositions, seen,
                   shownSeq, failedSeqs, unhandled>>

\* setGraphData is called: the request is fulfilled and the component mounted
Applied(resp) == request(resp).state = "fulfilled" /\ intervalOn

\* graphData after the request has settled
Shown(resp) == IF Applied(resp) THEN request(resp).value ELSE graphData

\* line 106, when the component renders again: run is the computeLayout
\* call of that render.  A render that throws unmounts the component, since
\* nothing above it catches the error, and the cleanup of line 102 clears
\* the interval.
Rerender(rendered, run) ==
    /\ layout' = IF rendered THEN Outcome(run) ELSE layout
    /\ lastPositions' = IF rendered THEN run.positions ELSE lastPositions
    /\ seen' = IF rendered
               THEN seen \cup {[snap |-> graphData', layout |-> Outcome(run)]}
               ELSE seen
    /\ intervalOn' = IF rendered /\ run.threw THEN FALSE ELSE intervalOn

\* lines 98 and 100: one request in flight settles, whichever it is; a state
\* update of the mounted component (setGraphData, setLoading) makes it render
\* again
Settle(f, resp) ==
    /\ f \in inflight
    /\ graphData' = Shown(resp)
    /\ shownSeq' = IF Applied(resp) THEN f.seq ELSE shownSeq
    /\ unhandled' = (unhandled
                       \/ CatchIgnore(ThenSetGraphData(request(resp))).state = "rejected")
    /\ lastFetch' = [op |-> "settle", seq |-> f.seq, resp |-> resp]
    /\ Rerender(Applied(resp) \/ (f.first /\ intervalOn),
                LayoutRun(Shown(resp), lastPositions))
    /\ loading' = IF f.first /\ intervalOn THEN FALSE ELSE loading
    /\ failedSeqs' = IF FailedResponse(resp) THEN failedSeqs \cup {f.seq} ELSE failedSeqs
    /\ inflight' = inflight \ {f}
    /\ UNCHANGED issued

(***************************************************************************)
(* App's Run Demo control (App.jsx 150-165, StatsRibbon) and the demo run  *)
(* of the backend                                                          *)
(***************************************************************************)
\* how many times Run Demo is clicked
MaxDemoRuns == 2

\* what POST /api/demo/run can end with
DemoResponses ==
    {NetworkError,
     Response(FALSE, ObjectText([detail |-> "Internal Server Error"])),
     Response(TRUE, ObjectText([status |-> "started"]))}

\* the events the backend pushes for one demo run, for each way it can end:
\* with the phone number to call, with a call that ended in success, with a
\* call that ended otherwise
ScriptAwaiting == <<EvResearch, EvToolKnown, EvAwaitingCall>>
ScriptSuccess == <<EvResearch, EvRinging, EvInProgress, EvTranscript, EvEndedSuccess>>
ScriptFailed == <<EvResearch, EvRinging, EvInProgress, EvTranscript, EvEndedFailed>>
RunScripts == {ScriptAwaiting, ScriptSuccess, ScriptFailed}
\* the longest of them
MaxScriptLen == Len(ScriptSuccess)

\* lines 155-159
StartedToast ==
    [type    |-> "info",
     message |-> "Demo started - user consult playing...",
     detail  |-> "Watch the live feed. Phone number appears after research."]

\* e.message of what api.js 3-10 throws: fetch's TypeError, the Error of
\* line 8, or the SyntaxError of res.json()
ErrorMessage(resp) ==
    IF resp.kind = "network_error" THEN "Failed to fetch"
    ELSE IF ~resp.ok THEN "500 Internal Server Error"
    ELSE "Unexpected token"

\* line 162
FailedToast(resp) == [type |-> "error", message |-> "Demo failed - " \o ErrorMessage(resp)]

\* lines 150-154: Run Demo is clicked; the button is disabled while
\* demoRunning (StatsRibbon, tailwind.config.js 501-502).  The handler sets
\* demoRunning and awaits api.runDemo().
handleRunDemo ==
    /\ ~demoRunning
    /\ demoRuns < MaxDemoRuns
    /\ demoRunning' = TRUE
    /\ runDemoPending' = runDemoPending + 1
    /\ demoRuns' = demoRuns + 1
    /\ UNCHANGED <<toast, centerTab, rightTab, centerTabsWithBadges,
                   rightTabsWithBadges, reacted, script>>

\* lines 154-164: api.runDemo() settles.  On success the backend has started
\* a run, which goes one of the ways of RunScripts; on failure the catch
\* block clears demoRunning.
RunDemoSettles(resp) ==
    /\ runDemoPending > 0
    /\ runDemoPending' = runDemoPending - 1
    /\ IF request(resp).state = "fulfilled"
       THEN /\ toast' = StartedToast
            /\ \E run \in RunScripts : script' = script \o run
            /\ UNCHANGED demoRunning
       ELSE /\ toast' = FailedToast(resp)
            /\ demoRunning' = FALSE
            /\ UNCHANGED script
    /\ UNCHANGED <<centerTab, rightTab, centerTabsWithBadges, rightTabsWithBadges,
                   reacted, demoRuns>>

\* the backend pushes the next event of the run over the open stream; the
\* runs started never hold more events than the limit given to Dispatch
PushRunEvent ==
    /\ script # <<>>
    /\ Dispatch(MessageOf(Head(script)), MaxDemoRuns * MaxScriptLen)
    /\ script' = Tail(script)
    /\ UNCHANGED <<runDemoPending, demoRuns>>

\* line 247 and Toast.jsx 35-38: the toast is dismissed, by the user or by
\* its timer
DismissToast ==
    /\ toast # JSNull
    /\ toast' = JSNull
    /\ UNCHANGED <<demoRunning, centerTab, rightTab, centerTabsWithBadges,
                   rightTabsWithBadges, runDemoPending, reacted, demoRuns, script>>

(***************************************************************************)
(* One call of buildReasoningChain, statement by statement                 *)
(***************************************************************************)
InitChain ==
    /\ input = <<>>
    /\ pc = "idle"
    /\ pos = 1
    /\ steps = <<>>
    /\ runs = <<>>

\* lines 91-92: the call starts
Call ==
    /\ pc = "idle"
    /\ Len(runs) < MaxRuns
    /\ pc' = "loop"
    /\ pos' = 1
    /\ steps' = FreshSteps(steps)
    /\ UNCHANGED <<input, runs>>

\* lines 94-250: one iteration of the loop
Iterate ==
    /\ pc = "loop"
    /\ pos <= Len(input)
    /\ steps' = LoopBody(steps, input[pos])
    /\ pos' = pos + 1
    /\ UNCHANGED <<input, pc, runs>>

\* line 252: return steps
Return ==
    /\ pc = "loop"
    /\ pos > Len(input)
    /\ runs' = Append(runs, steps)
    /\ pc' = "idle"
    /\ UNCHANGED <<input, pos, steps>>

(***************************************************************************)
(* Specifications                                                          *)
(***************************************************************************)
\* the messages a run of Spec delivers
WirePool ==
    {MessageOf(EvTranscript), MessageOf(EvEndedSuccess), MessageOf(EvToolKnown),
     MessageOf(EvResearchConfirmed), MessageOf(EvGraphSavings),
     MessageOf(EvReset), MessageOf(EvResetWithPhase),
     MessageOf(EvResetFalse), MessageOf(EvResetOtherType),
     Message("transcript", InvalidText), Message("call_status", NullText),
     Message("heartbeat", ObjectText(EvUnknownKind))}

Init == InitSSE /\ InitGraph /\ InitChain /\ InitApp

\* the hook under any interleaving of connectivity changes and messages
Next ==
    \/ OnOpen /\ UNCHANGED <<graphVars, chainVars, appVars>>
    \/ OnError /\ UNCHANGED <<graphVars, chainVars, appVars>>
    \/ Cleanup /\ UNCHANGED <<graphVars, chainVars, appVars>>
    \/ \E msg \in WirePool : Dispatch(msg, MaxArrivals) /\ UNCHANGED <<graphVars, chainVars, demoVars>>

Spec == Init /\ [][Next]_vars

\* the k-th event of a long session
StreamCycle ==
    <<EvResearch, EvToolKnown, EvRinging, EvInProgress, EvTranscript, EvEntity,
      EvEndedSuccess>>
\* its first events: one detection and one voice analysis, which the stream
\* never sends again
StreamOpening == <<EvDetection, EvVoice>>
StreamEvent(k) ==
    IF k <= Len(StreamOpening) THEN StreamOpening[k]
    ELSE StreamCycle[((k - Len(StreamOpening) - 1) % Len(StreamCycle)) + 1]

\* the hook on a long session: the stream's events in order, a reset-marked
\* event at any point
NextRetention ==
    \/ OnOpen /\ UNCHANGED <<graphVars, chainVars, appVars>>
    \/ Dispatch(MessageOf(StreamEvent(arrivals + 1)), MaxStream)
         /\ UNCHANGED <<graphVars, chainVars, demoVars>>
    \/ \E ev \in {EvReset, EvResetWithPhase} :
          Dispatch(MessageOf(ev), MaxStream) /\ UNCHANGED <<graphVars, chainVars, demoVars>>

SpecRetention == Init /\ [][NextRetention]_vars

\* the graph component under any order of ticks and settlements
NextGraph ==
    \/ Tick /\ UNCHANGED <<sseVars, chainVars, appVars>>
    \/ Unmount /\ UNCHANGED <<sseVars, chainVars, appVars>>
    \/ \E f \in inflight : \E resp \in ResponsePool :
          Settle(f, resp) /\ UNCHANGED <<sseVars, chainVars, appVars>>

SpecGraph == Init /\ [][NextGraph]_vars

\* what GET /api/graph answers with in a run of SpecLayout: a snapshot of
\* the pool, or the JSON text null
LayoutResponses ==
    {Response(TRUE, ObjectText(snap)) : snap \in SnapshotPool}
        \cup {Response(TRUE, NullText)}

\* the graph component polling a store of any content, each request answered
\* before the interval fires again
NextLayout ==
    \/ Tick /\ inflight = {} /\ UNCHANGED <<sseVars, chainVars, appVars>>
    \/ \E f \in inflight : \E resp \in LayoutResponses :
          Settle(f, resp) /\ UNCHANGED <<sseVars, chainVars, appVars>>

SpecLayout == Init /\ [][NextLayout]_vars

\* App during demo runs: the stream opens, Run Demo is clicked, the request
\* settles, the backend pushes the events of the run
NextDemo ==
    \/ OnOpen /\ UNCHANGED <<graphVars, chainVars, appVars>>
    \/ handleRunDemo /\ UNCHANGED <<sseVars, graphVars, chainVars>>
    \/ \E resp \in DemoResponses :
          RunDemoSettles(resp) /\ UNCHANGED <<sseVars, graphVars, chainVars>>
    \/ PushRunEvent /\ UNCHANGED <<graphVars, chainVars>>
    \/ DismissToast /\ UNCHANGED <<sseVars, graphVars, chainVars>>

\* the browser opens the stream, delivers the response of a pending request
\* and delivers the events the backend has pushed
DemoFairness ==
    /\ WF_vars(OnOpen /\ UNCHANGED <<graphVars, chainVars, appVars>>)
    /\ WF_vars(\E resp \in DemoResponses :
                  RunDemoSettles(resp) /\ UNCHANGED <<sseVars, graphVars, chainVars>>)
    /\ WF_vars(PushRunEvent /\ UNCHANGED <<graphVars, chainVars>>)

SpecDemo == Init /\ [][NextDemo]_vars /\ DemoFairness

\* the events the longer histories of SpecChain are built from
HistoryPool ==
    {EvResearch, EvResearchConfirmed, EvCompleteConfirmed, EvDispatchConfirmed,
     EvToolKnown, EvEndedSuccess, EvEntity, EvGraphSavings, EvVoice, EvTranscript}

RECURSIVE SeqsUpTo(_, _)
SeqsUpTo(S, n) ==
    IF n = 0 THEN {<<>>}
    ELSE LET shorter == SeqsUpTo(S, n - 1)
         IN  shorter \cup {Append(h, e) : h \in shorter, e \in S}

\* every event of the pool alone, and every history over HistoryPool
Histories == {<<e>> : e \in EventPool} \cup SeqsUpTo(HistoryPool, MaxChainLen)

InitChainInputs ==
    /\ InitSSE
    /\ InitGraph
    /\ InitApp
    /\ input \in Histories
    /\ pc = "idle"
    /\ pos = 1
    /\ steps = <<>>
    /\ runs = <<>>

NextChain ==
    \/ Call /\ UNCHANGED <<sseVars, graphVars, appVars>>
    \/ Iterate /\ UNCHANGED <<sseVars, graphVars, appVars>>
    \/ Return /\ UNCHANGED <<sseVars, graphVars, appVars>>

SpecChain == InitChainInputs /\ [][NextChain]_vars

(***************************************************************************)
(* Properties                                                              *)
(***************************************************************************)
Min(a, b) == IF a < b THEN a ELSE b

\* C1: the history holds at most 150 events, and it is exactly the most
\* recent min(150, n) of the n non-reset events appended since the last
\* reset, in their arrival order.
C1_Retention ==
    /\ Len(events) <= MaxHistory
    /\ Len(events) = Min(MaxHistory, Len(received))
    /\ \A i \in 1..Len(events) :
          events[i] = received[Len(received) - Len(events) + i]

\* 151 events since the last reset: 150 are held, the oldest one is gone
C1_Witness ==
    /\ Len(received) = MaxHistory + 1
    /\ Len(events) = MaxHistory
    /\ events[1] = received[2]
    /\ events[1] # received[1]

\* C2: right after a reset-marked task_updated event is handled the history
\* is the empty sequence (the reset event is not in it) and the Step sequence
\* derived from it is empty, whatever the history was before.
C2_ResetEmpties ==
    lastOp.kind = "reset" =>
        /\ events = <<>>
        /\ Len(events) = 0
        /\ buildReasoningChain(events) = <<>>

\* a reset arrives after 40 events
C2_Witness == lastOp.kind = "reset" /\ lastOp.before = 40

\* C3: once a reset-marked event has been handled and exactly one non-reset
\* event e has been appended since, the Step sequence derived from the
\* history is buildReasoningChain(<<e>>).
C3_ResetThenOne ==
    (resetSeen /\ Len(received) = 1) =>
        buildReasoningChain(events) = buildReasoningChain(<<received[1]>>)

\* a reset wiped a non-empty history and the next event, which yields Steps,
\* has been appended
C3_Witness ==
    /\ lastOp.kind = "append"
    /\ lastOp.wiped > 0
    /\ Len(received) = 1
    /\ buildReasoningChain(<<received[1]>>) # <<>>

\* C4: the displayed snapshot is never replaced by the result of a fetch
\* initiated earlier than the one whose result is displayed.
C4_LatestInitiatedWins == [][shownSeq' >= shownSeq]_vars

\* C5: a fetch that fails leaves the displayed snapshot as it was, leaves no
\* rejection unhandled and leaves the interval armed, so that the next fetch
\* can be issued; a fetch that delivers a snapshot while the component is
\* mounted has it displayed.
C5_FailedFetchHarmless ==
    /\ [][(lastFetch'.op = "settle" /\ FailedResponse(lastFetch'.resp)) =>
             /\ graphData' = graphData
             /\ shownSeq' = shownSeq
             /\ intervalOn' = intervalOn
             /\ ~unhandled']_vars
    /\ [][(lastFetch'.op = "settle" /\ ~FailedResponse(lastFetch'.resp)
              /\ lastFetch' # lastFetch /\ intervalOn) =>
             graphData' = lastFetch'.resp.body.value]_vars
    /\ [](( /\ lastFetch.op = "settle"
            /\ FailedResponse(lastFetch.resp)
            /\ intervalOn
            /\ issued < MaxFetches) => ENABLED Tick)

\* a fetch failed, and the fetch issued next has been applied
C5_Witness ==
    /\ lastFetch.op = "settle"
    /\ ~FailedResponse(lastFetch.resp)
    /\ (lastFetch.seq - 1) \in failedSeqs
    /\ shownSeq = lastFetch.seq
    /\ graphData = SnapAfter

\* C6: a message whose data fails to parse changes neither the history nor
\* callStatus nor the connectivity flag, no exception leaves the handler,
\* and an event that arrives after it is appended as usual.
C6_MalformedDropped ==
    /\ [][lastOp'.kind = "dropped" =>
             /\ events' = events
             /\ callStatus' = callStatus
             /\ connected' = connected
             /\ ~escaped']_vars
    /\ [][(drops > 0 /\ lastOp'.kind = "append" /\ lastOp' # lastOp) =>
             events' = Append(events, lastOp'.data)]_vars

\* a message was dropped while the history held an event, and a later event
\* was appended behind it
C6_Witness ==
    /\ drops > 0
    /\ lastOp.kind = "append"
    /\ Len(events) = 2
    /\ ~escaped

\* C7: open sets the flag, error clears it, neither touches the history or
\* callStatus; a non-empty history becomes empty only by a reset-marked event.
C7_ConnectivityFrame ==
    [][ /\ (lastOp'.kind = "open" =>
               connected' /\ events' = events /\ callStatus' = callStatus)
        /\ (lastOp'.kind = "error" =>
               ~connected' /\ events' = events /\ callStatus' = callStatus)
        /\ ((events # <<>> /\ events' = <<>>) => lastOp'.kind = "reset") ]_vars

\* the connection was lost and re-established while the history held events
C7_Witness ==
    /\ lastOp.kind = "open"
    /\ connected
    /\ Len(events) = 2

\* C8: for the history H and every event e, the Steps of H + [e] are the
\* Steps of H followed by the Steps of e alone.  (H is the history the calls
\* are made on; it is the same in every state of a run, so the equation is
\* evaluated between calls only.)
C8_MonotonicPrefix ==
    pc = "idle" =>
        LET stepsOfH == buildReasoningChain(input)
        IN  \A e \in EventPool :
                buildReasoningChain(Append(input, e))
                    = stepsOfH \o buildReasoningChain(<<e>>)

\* a history of two events, one of which produced more than one Step, has
\* been run
C8_Witness ==
    /\ Len(input) >= 2
    /\ Len(runs) >= 1
    /\ Len(runs[1]) > Len(input)

\* C9: every call of buildReasoningChain on the same history returns the same
\* Step sequence, and no step of a call changes the history.
C9_Deterministic ==
    /\ [](\A i \in DOMAIN runs : \A j \in DOMAIN runs : runs[i] = runs[j])
    /\ [][input' = input]_vars

\* two calls have returned, with Steps
C9_Witness ==
    /\ Len(runs) >= 2
    /\ Len(runs[1]) >= 2
    /\ Len(input) >= 2

\* the phases the task_updated branch has a Step for
HandledPhases == {"research", "research_complete", "dispatch"}
PhaseCategory(phase) ==
    CASE phase = "research" -> "research"
      [] phase = "research_complete" -> "strategy"
      [] phase = "dispatch" -> "call"

CarriesPhaseAndAction(ev) ==
    /\ TypeIs(ev, "task_updated")
    /\ Has(ev, "data")
    /\ Has(ev.data, "phase")
    /\ ev.data.phase \in HandledPhases
    /\ Has(ev.data, "confirmed_action")

IsConfirmedActionStep(step) ==
    step.category = "summary" /\ step.source = "User Decision"
IsPhaseStep(step, phase) ==
    step.category = PhaseCategory(phase) /\ step.source # "User Decision"

\* C10 as stated: a call on a single task_updated event that carries a
\* handled phase and a confirmed_action returns two Steps, the phase Step
\* first and the confirmed_action Step after it.
C10_ActionAfterPhase ==
    \A r \in DOMAIN runs :
        (Len(input) = 1 /\ CarriesPhaseAndAction(input[1])) =>
            /\ Len(runs[r]) = 2
            /\ IsPhaseStep(runs[r][1], input[1].data.phase)
            /\ IsConfirmedActionStep(runs[r][2])

\* C10 as amended: the call returns two Steps; the confirmed_action Step
\* comes after the Step of phase research or research_complete, and before
\* the Step of phase dispatch.
C10_SourceOrder ==
    \A r \in DOMAIN runs :
        (Len(input) = 1 /\ CarriesPhaseAndAction(input[1])) =>
            /\ Len(runs[r]) = 2
            /\ IF input[1].data.phase = "dispatch"
               THEN /\ IsConfirmedActionStep(runs[r][1])
                    /\ IsPhaseStep(runs[r][2], "dispatch")
               ELSE /\ IsPhaseStep(runs[r][1], input[1].data.phase)
                    /\ IsConfirmedActionStep(runs[r][2])

\* an event with phase dispatch and a confirmed_action has been run
C10_Witness ==
    /\ Len(runs) >= 1
    /\ Len(input) = 1
    /\ CarriesPhaseAndAction(input[1])
    /\ input[1].data.phase = "dispatch"

\* the event kinds buildReasoningChain has a branch for (lines 97-242)
RuleKinds ==
    {"task_updated", "tool_call", "call_status", "voice_analysis", "entity_extracted",
     "graph_updated", "bill_analyzed", "call_summary", "modulate_analysis", "pii_detected"}

\* the events C11 names: a kind without a branch (transcript, detection and
\* every unrecognized kind), a call_status whose status is none of the three,
\* a task_updated that carries nothing but a tasks payload
MatchesNoRule(ev) ==
    \/ ~Has(ev, "type")
    \/ ev.type \notin RuleKinds
    \/ /\ ev.type = "call_status"
       /\ ~(Has(DataOf(ev), "status")
              /\ DataOf(ev).status \in {"ringing", "in_progress", "ended"})
    \/ /\ ev.type = "task_updated"
       /\ DOMAIN DataOf(ev) = {"tasks"}

\* C11: every call returns, and what it returns is what it returns on the
\* history with the events that match no rule taken out; a call on such an
\* event alone returns no Step.
C11_NoRuleNoSteps ==
    \A r \in DOMAIN runs :
        /\ runs[r] = buildReasoningChain(SelectSeq(input, LAMBDA ev : ~MatchesNoRule(ev)))
        /\ (Len(input) = 1 /\ MatchesNoRule(input[1])) => runs[r] = <<>>

\* a call on a call_status event with status awaiting_call has returned
C11_Witness ==
    /\ Len(runs) >= 1
    /\ input = <<EvAwaitingCall>>
    /\ pc = "idle"

\* sub occurs in the string s
Contains(s, sub) ==
    \E i \in 1..(Len(s) - Len(sub) + 1) : SubSeq(s, i, i + Len(sub) - 1) = sub

\* the payload carries savings: details holds a monthly or an annual figure
CarriesSavings(d) ==
    /\ Has(d, "details")
    /\ d.details # JSNull
    /\ (Has(d.details, "monthly_savings") \/ Has(d.details, "annual_savings"))

\* C16: a call on one graph_updated event returns one Step of category
\* graph, whose highlight is true exactly when the payload carries monthly or
\* annual savings, and whose detail then shows both figures that are present.
C16_GraphStep ==
    \A r \in DOMAIN runs :
        (Len(input) = 1 /\ TypeIs(input[1], "graph_updated")) =>
            LET d == DataOf(input[1])
            IN  /\ Len(runs[r]) = 1
                /\ runs[r][1].category = "graph"
                /\ runs[r][1].highlight = CarriesSavings(d)
                /\ CarriesSavings(d) =>
                       /\ Has(d.details, "monthly_savings") =>
                              Contains(runs[r][1].detail, ToString(d.details.monthly_savings))
                       /\ Has(d.details, "annual_savings") =>
                              Contains(runs[r][1].detail, ToString(d.details.annual_savings))

\* s with every "_" replaced by " ", stated character by character
IsUnderscoreFree(label, s) ==
    /\ Len(label) = Len(s)
    /\ \A i \in 1..Len(s) :
           SubSeq(label, i, i) = (IF SubSeq(s, i, i) = "_" THEN " " ELSE SubSeq(s, i, i))

\* C17: a call on one entity_extracted event returns one Step of category
\* entity; its label is the entity type with every underscore replaced by a
\* space and its detail is the payload's value, each when the payload has
\* it; without an entity type the label is the word entity, without a value
\* the Step has no detail.
C17_EntityStep ==
    \A r \in DOMAIN runs :
        (Len(input) = 1 /\ TypeIs(input[1], "entity_extracted")) =>
            LET d == DataOf(input[1])
            IN  /\ Len(runs[r]) = 1
                /\ runs[r][1].category = "entity"
                /\ IF Has(d, "entity_type")
                   THEN IsUnderscoreFree(runs[r][1].label, d.entity_type)
                   ELSE runs[r][1].label = "entity"
                /\ IF Has(d, "value")
                   THEN runs[r][1].detail = d.value
                   ELSE ~Has(runs[r][1], "detail")

\* a call on an entity_extracted event whose type has two underscores has
\* returned
C17_Witness ==
    /\ Len(runs) >= 1
    /\ input = <<EvEntitySnake>>
    /\ runs[1][1].label = "new monthly rate"
    /\ runs[1][1].detail = "$65"

\* ---- helpers of the layout properties: what a snapshot says, read without
\* ---- computeLayout
\* the snapshot has the structure computeLayout reads
WellFormed(g) ==
    /\ g # JSNull
    /\ Has(g, "nodes")
    /\ Has(g, "links")
    /\ \A i \in DOMAIN g.links :
          /\ Has(g.links[i], "source") /\ g.links[i].source # JSNull
          /\ Has(g.links[i], "target") /\ g.links[i].target # JSNull
NodeIds(g) == {g.nodes[i].id : i \in DOMAIN g.nodes}
NodesLabelled(g, label) == SelectSeq(g.nodes, LAMBDA n : n.label = label)
ItemsLabelled(lay, label) == SelectSeq(lay.positioned, LAMBDA item : item.node.label = label)
\* both normalized endpoints of the link are ids of nodes of the snapshot
Resolved(g, l) ==
    /\ sourceId(l) # Undefined /\ sourceId(l).value \in NodeIds(g)
    /\ targetId(l) # Undefined /\ targetId(l).value \in NodeIds(g)
\* a link of the snapshot joins the node n and the node s
Joined(g, n, s) ==
    \E i \in DOMAIN g.links :
        \/ IdIs(sourceId(g.links[i]), n.id) /\ IdIs(targetId(g.links[i]), s.id)
        \/ IdIs(targetId(g.links[i]), n.id) /\ IdIs(sourceId(g.links[i]), s.id)
\* the node is joined to a Service node of the snapshot
LinkedToService(g, n) ==
    \E k \in DOMAIN g.nodes : g.nodes[k].label = "Service" /\ Joined(g, n, g.nodes[k])

\* C12: for a snapshot that has its structure, the layout call raises no
\* error, positions every node, and renders exactly the links whose two
\* normalized endpoints are nodes of the snapshot, so a link to an id that no
\* node has is left out.
C12_DanglingDropped ==
    WellFormed(graphData) =>
        /\ ~layout.threw
        /\ Len(layout.positioned) = Len(graphData.nodes)
        /\ \A i \in DOMAIN graphData.nodes : layout.positioned[i].node = graphData.nodes[i]
        /\ Len(layout.edges)
             = Cardinality({i \in DOMAIN graphData.links :
                               Resolved(graphData, graphData.links[i])})

\* C13: whatever was rendered before, a snapshot gets the layout that a call
\* on it alone returns, so two renders of one snapshot show the same nodes at
\* the same (x, y) and the same edges.
C13_LayoutDeterministic ==
    /\ \A a \in seen : \A b \in seen : a.snap = b.snap => a.layout = b.layout
    /\ \A a \in seen : a.layout = computeLayout(a.snap)

\* a snapshot with a dangling link has been rendered after two other renders,
\* one of them of a snapshot that has the node the link points to
C13_Witness ==
    /\ lastFetch.op = "settle"
    /\ lastFetch.seq = 3
    /\ graphData = SnapDangling
    /\ \E a \in seen : a.snap = SnapBefore
    /\ ~layout.threw

\* C14: the Service nodes of a rendered snapshot are positioned in snapshot
\* order at one y below the anchor, each at the same fixed distance from the
\* one before, and the first and the last are equally far from the anchor's
\* x on either side (the Person's x when there is one).
C14_ResourceBand ==
    (~layout.threw /\ graphData.nodes # <<>>) =>
        LET svc    == ItemsLabelled(layout, "Service")
            people == ItemsLabelled(layout, "Person")
            n      == Len(svc)
        IN  /\ n = Len(NodesLabelled(graphData, "Service"))
            /\ \A i \in 1..n : svc[i].node = NodesLabelled(graphData, "Service")[i]
            /\ \A i \in 1..n : svc[i].y = svc[1].y
            /\ \A i \in 1..n : \A k \in DOMAIN people : svc[i].y > people[k].y
            /\ \A i \in 1..(n - 1) : svc[i + 1].x - svc[i].x = serviceSpacing
            /\ n >= 1 => /\ svc[1].x + svc[n].x = 2 * CX
                         /\ \A k \in DOMAIN people : svc[1].x + svc[n].x = 2 * people[k].x
            /\ n = 2 => \A k \in DOMAIN people :
                            /\ svc[1].x < people[k].x
                            /\ people[k].x < svc[2].x

\* a Person with three Service nodes has been rendered
C14_Witness ==
    /\ graphData = SnapThreeServices
    /\ ~layout.threw
    /\ Len(ItemsLabelled(layout, "Service")) = 3
    /\ Len(ItemsLabelled(layout, "Person")) = 1

\* the Person items of every layout rendered so far
PersonItemsSeen ==
    UNION {{a.layout.positioned[i] : i \in {k \in DOMAIN a.layout.positioned :
                                              a.layout.positioned[k].node.label = "Person"}}
           : a \in {b \in seen : ~b.layout.threw}}

\* C15: in every layout rendered the Person node is at one and the same
\* point, whatever else the snapshot holds; a snapshot without nodes gives
\* no positioned node and no edge; a snapshot that has a Person and no
\* Service node gets the Person positioned, and a snapshot of the Person
\* alone gets a layout of that one node.
C15_AnchorAndDegenerate ==
    /\ \A p \in PersonItemsSeen : \A q \in PersonItemsSeen : p.x = q.x /\ p.y = q.y
    /\ \A a \in seen :
          (a.snap # JSNull /\ Has(a.snap, "nodes") /\ a.snap.nodes = <<>>) =>
              a.layout = [threw |-> FALSE, positioned |-> <<>>, edges |-> <<>>]
    /\ \A a \in seen :
          (/\ WellFormed(a.snap)
           /\ Len(NodesLabelled(a.snap, "Person")) = 1
           /\ Len(NodesLabelled(a.snap, "Service")) = 0) =>
              /\ ~a.layout.threw
              /\ Len(ItemsLabelled(a.layout, "Person")) = 1
              /\ Len(a.snap.nodes) = 1 =>
                    /\ Len(a.layout.positioned) = 1
                    /\ a.layout.positioned[1].node = a.snap.nodes[1]
                    /\ a.layout.edges = <<>>

\* the Person alone has been rendered after a snapshot with Service nodes,
\* and the empty snapshot before them
C15_Witness ==
    /\ graphData = SnapPersonOnly
    /\ Len(layout.positioned) = 1
    /\ \E a \in seen : a.snap = SnapThreeServices
    /\ \E a \in seen : a.snap = SnapEmpty

\* C18: the rendered edge list has at most one edge for each (normalized
\* source, normalized target, type) that the snapshot's links name.
C18_EdgesDeduplicated ==
    (WellFormed(graphData) /\ ~layout.threw) =>
        Len(layout.edges)
          <= Cardinality({<<KeyOf(sourceId(graphData.links[i])),
                            KeyOf(targetId(graphData.links[i])),
                            graphData.links[i].type>> : i \in DOMAIN graphData.links})

\* C19: no fetched snapshot makes the layout call of the render throw: the
\* view stays mounted and goes on polling.
C19_MalformedSnapshotDropped ==
    /\ ~layout.threw
    /\ (lastFetch.op = "settle" /\ ~FailedResponse(lastFetch.resp)) => intervalOn

\* C20: an outcome node linked to a positioned Service node is placed below
\* a Service node it is linked to; two outcome nodes linked to one Service
\* node never share a position; an outcome node without such a link is
\* placed strictly further down than every linked one.
C20_OutcomePlacement ==
    (WellFormed(graphData) /\ ~layout.threw) =>
        LET out      == ItemsLabelled(layout, "Negotiation")
            svc      == ItemsLabelled(layout, "Service")
            linked   == {i \in DOMAIN out : LinkedToService(graphData, out[i].node)}
            unlinked == DOMAIN out \ linked
        IN  /\ \A i \in linked :
                  \E k \in DOMAIN svc :
                      /\ Joined(graphData, out[i].node, svc[k].node)
                      /\ out[i].y > svc[k].y
            /\ \A i \in linked : \A j \in linked :
                  (i # j /\ \E k \in DOMAIN svc :
                               /\ Joined(graphData, out[i].node, svc[k].node)
                               /\ Joined(graphData, out[j].node, svc[k].node)) =>
                      (out[i].x # out[j].x \/ out[i].y # out[j].y)
            /\ \A i \in unlinked : \A j \in linked : out[i].y > out[j].y

\* the node's properties record a previous rate and a current rate, and the
\* two differ
RateChanged(n) ==
    /\ Has(n, "properties") /\ n.properties # JSNull
    /\ Has(n.properties, "previousRate") /\ Has(n.properties, "monthlyRate")
    /\ n.properties.previousRate # n.properties.monthlyRate

\* C21: in every layout rendered, a positioned node is shown active exactly
\* when it is a Negotiation node, or a Service node whose monthly rate
\* differs from its previous rate; a Person node, and a Service node with an
\* equal or no previous rate, is not active.
C21_ActiveFlag ==
    \A r \in seen :
        ~r.layout.threw =>
            \A i \in DOMAIN r.layout.positioned :
                Glows(r.layout.positioned[i].active)
                    <=> \/ PropIs(r.layout.positioned[i].node, "label", "Negotiation")
                        \/ /\ PropIs(r.layout.positioned[i].node, "label", "Service")
                           /\ RateChanged(r.layout.positioned[i].node)

\* an endpoint given as an object that carries an id, and the bare id it
\* stands for
IsEmbedded(v) == v # JSNull /\ ~Has(v, "bare") /\ Has(v, "id")
BareEnd(v) == IF IsEmbedded(v) THEN Bare(v.id) ELSE v
\* the snapshot with every embedded endpoint replaced by its bare id
BareLinks(g) ==
    [g EXCEPT !.links = [i \in DOMAIN g.links |->
                            [g.links[i] EXCEPT !.source = BareEnd(g.links[i].source),
                                               !.target = BareEnd(g.links[i].target)]]]
HasEmbedded(g) ==
    \E i \in DOMAIN g.links : IsEmbedded(g.links[i].source) \/ IsEmbedded(g.links[i].target)

\* C22: a rendered snapshot whose links carry embedded node objects gets the
\* layout (positioned nodes and rendered edges) of the same snapshot with
\* bare ids: two rendered snapshots that differ only in how endpoints are
\* given have equal layouts.
C22_EndpointNormalization ==
    \A a \in seen : \A b \in seen :
        (WellFormed(a.snap) /\ WellFormed(b.snap) /\ BareLinks(a.snap) = BareLinks(b.snap))
            => a.layout = b.layout

\* a snapshot with an outcome link embedded at both ends and the same
\* snapshot with bare ids have both been rendered, with three edges
C22_Witness ==
    /\ \E a \in seen : a.snap = SnapNegotiatedEmbedded
    /\ \E b \in seen : b.snap = SnapNegotiated /\ Len(b.layout.edges) = 3
    /\ HasEmbedded(SnapNegotiatedEmbedded)
    /\ BareLinks(SnapNegotiatedEmbedded) = SnapNegotiated

\* the tool names of the closed table
KnownTools ==
    {"tavily_search", "search_task_context", "extract_entities", "update_neo4j",
     "end_task", "get_subscription_analysis", "confirm_action", "calculate_cost_per_use"}

\* C23: a call on one tool_call event returns one Step of category tool; for
\* a tool name of the table the Step's label, detail and source are the
\* table's, and for any other tool name the label is the name itself, the
\* detail "Processing..." and the source "Agent".
C23_ToolStep ==
    \A r \in DOMAIN runs :
        (Len(input) = 1 /\ TypeIs(input[1], "tool_call")) =>
            LET d == DataOf(input[1])
            IN  /\ Len(runs[r]) = 1
                /\ runs[r][1].category = "tool"
                /\ (Has(d, "tool") /\ d.tool \in KnownTools) =>
                       /\ runs[r][1].label = ToolLabels[d.tool].label
                       /\ runs[r][1].detail = ToolLabels[d.tool].detail
                       /\ runs[r][1].source = ToolLabels[d.tool].source
                /\ (Has(d, "tool") /\ d.tool \notin KnownTools) =>
                       /\ Has(runs[r][1], "label") /\ runs[r][1].label = d.tool
                       /\ Has(runs[r][1], "detail") /\ runs[r][1].detail = "Processing..."
                       /\ Has(runs[r][1], "source") /\ runs[r][1].source = "Agent"

\* C24: a call on one call_status event returns one Step of category call
\* when the status is ringing or in_progress, and one Step of category
\* summary when the status is ended, whose highlight is true exactly when the
\* payload's outcome is success.
C24_CallStatusStep ==
    \A r \in DOMAIN runs :
        (Len(input) = 1 /\ TypeIs(input[1], "call_status")) =>
            LET d == DataOf(input[1])
            IN  /\ (PropIs(d, "status", "ringing") \/ PropIs(d, "status", "in_progress")) =>
                       /\ Len(runs[r]) = 1
                       /\ runs[r][1].category = "call"
                /\ PropIs(d, "status", "ended") =>
                       /\ Len(runs[r]) = 1
                       /\ runs[r][1].category = "summary"
                       /\ runs[r][1].highlight = PropIs(d, "outcome", "success")

\* a call on a call that ended with the outcome failed has returned its
\* summary Step, not highlighted
C24_Witness ==
    /\ Len(runs) >= 1
    /\ input = <<EvEndedFailed>>
    /\ runs[1][1].category = "summary"
    /\ runs[1][1].highlight = FALSE

\* C26: once a reset-marked event has been handled, what the hook exposes
\* holds only events appended since the last reset: every event of the
\* history is one of them, and callStatus is null or one of them.
C26_NothingStale ==
    resetSeen =>
        /\ \A i \in DOMAIN events : \E j \in DOMAIN received : received[j] = events[i]
        /\ \/ callStatus = JSNull
           \/ \E j \in DOMAIN received : received[j] = callStatus

\* the tab of that key is rendered with a badge
Lit(tabs, key) == \E i \in DOMAIN tabs : tabs[i].key = key /\ tabs[i].badge # JSNull
\* the retained history holds an event of that type
Retained(t) == \E i \in DOMAIN events : Has(events[i], "type") /\ events[i].type = t
RetainedEnded ==
    \E i \in DOMAIN events :
        /\ Has(events[i], "type") /\ events[i].type = "call_status"
        /\ Has(events[i], "data") /\ events[i].data # JSNull
        /\ Has(events[i].data, "status") /\ events[i].data.status = "ended"

\* C25: each badge of the rendered tabs is lit exactly when the retained
\* history holds a matching event: live for a transcript, reasoning for a
\* tool_call or entity_extracted, history for an ended call_status, intel for
\* a voice_analysis, monitor for a detection.  So no badge is lit when the
\* history is empty, and a badge goes out when its last matching event has
\* left the history.
C25_AggregateFlags ==
    /\ Lit(centerTabsWithBadges, "live") <=> Retained("transcript")
    /\ Lit(centerTabsWithBadges, "reasoning")
           <=> (Retained("tool_call") \/ Retained("entity_extracted"))
    /\ Lit(centerTabsWithBadges, "history") <=> RetainedEnded
    /\ Lit(rightTabsWithBadges, "intel") <=> Retained("voice_analysis")
    /\ Lit(rightTabsWithBadges, "monitor") <=> Retained("detection")
    /\ ~Lit(rightTabsWithBadges, "integrations")

\* the only detection of the session was the first event and the 151st
\* event has just pushed it out of the history: the monitor badge is out
\* while the intel and live badges are still lit
C25_Witness ==
    /\ lastOp.kind = "append"
    /\ Len(received) = MaxHistory + 1
    /\ received[1].type = "detection"
    /\ ~Lit(rightTabsWithBadges, "monitor")
    /\ Lit(rightTabsWithBadges, "intel")
    /\ Lit(centerTabsWithBadges, "live")

\* C27: whenever a non-reset event has been appended to the history, the
\* effect of App has run for it: the event it handled as latest is the event
\* just appended, also when the history already held 150 events.
C27_LatestHandled ==
    lastOp.kind = "append" => reacted = Handled(lastOp.data)

\* a is b with zero or more elements appended
IsPrefixOf(a, b) == Len(a) <= Len(b) /\ \A i \in DOMAIN a : a[i] = b[i]

\* the history as it was before the event just appended: the most recent
\* 150 of the events appended before it since the last reset (see C1)
HistoryBefore == SliceLast(SubSeq(received, 1, Len(received) - 1), MaxHistory)

\* C28: when a non-reset event has been handled, the Step sequence derived
\* from the history is the Step sequence derived from the history before the
\* event with zero or more Steps appended, also when the history already
\* held 150 events and when the event yields no Step.
C28_TimelineGrows ==
    lastOp.kind = "append" =>
        IsPrefixOf(buildReasoningChain(HistoryBefore), buildReasoningChain(events))

\* the snapshot's node ids are pairwise different and at most one of its
\* nodes is a Person
UniqueIds(g) ==
    \A i \in DOMAIN g.nodes : \A j \in DOMAIN g.nodes :
        g.nodes[i].id = g.nodes[j].id => i = j
AtMostOnePerson(g) == Len(NodesLabelled(g, "Person")) <= 1

\* C29: in the layout of a rendered snapshot with unique node ids and at
\* most one Person, no two positioned nodes have the same (x, y).
C29_NoOverlap ==
    \A r \in seen :
        (WellFormed(r.snap) /\ ~r.layout.threw /\ UniqueIds(r.snap) /\ AtMostOnePerson(r.snap)) =>
            \A i \in DOMAIN r.layout.positioned : \A j \in DOMAIN r.layout.positioned :
                (/\ i # j
                 /\ Has(r.layout.positioned[i], "x")
                 /\ Has(r.layout.positioned[j], "x"))
                    => \/ r.layout.positioned[i].x # r.layout.positioned[j].x
                       \/ r.layout.positioned[i].y # r.layout.positioned[j].y

\* C30: whenever demoRunning is true it is false again at some later time:
\* the request fails, or the events of the run arrive, and whichever way the
\* run ends the Run Demo and Reset controls are enabled again.
C30_DemoRunningClears == demoRunning ~> ~demoRunning

====
